---- MODULE Spec2Model ----
(***************************************************************************)
(* Verification model of the live transcription pipeline of                *)
(* src/live_transcription.py (class LiveTranscriber): the capture callback *)
(* that cuts overlapping windows out of the audio buffer, the bounded      *)
(* processing queue, the worker loop with its silence gate and exact-match *)
(* de-duplication, the start/stop lifecycle and the result drain.          *)
(*                                                                         *)
(* Units.  Durations are written in tenths of a second (chunk_duration 7   *)
(* is 0.7 s), amplitudes in thousandths of full scale (10 is 0.01).  The   *)
(* instance is a small one: 10 samples per second, so that the 100 ms      *)
(* block the stream delivers is one sample.  A sample is a record          *)
(* [t, a]: a is its amplitude, t the ordinal of its capture, which makes   *)
(* every captured sample distinct.  A text is a sequence of characters.    *)
(***************************************************************************)
EXTENDS Integers, Sequences, FiniteSets, TLC

\* ------------------------------------------------------------------ bounds
\* Sample frames the device delivers in one run, over all sessions.
MaxFrames == 10
\* Sample frames the device delivers in one run of the specifications that
\* state fairness.
MaxFairFrames == 8
\* Sample frames handed to audio_callback in one run when it is called
\* directly with blocks of any length.
MaxDirectFrames == 16
\* Calls of start_recording in one run (each creates one worker thread).
MaxSessions == 2
\* Delivered frames that carry sound; the others are below the threshold.
MaxLoud == 1
\* Calls of EnhancedAudioRecorder.audio_callback in one run.
MaxCallbacks == 3
\* Processing threads an EnhancedAudioRecorder starts in one run.
MaxRecorderSessions == 2
\* Streams of an EnhancedAudioRecorder that are open and no longer referred
\* to by self.stream.
MaxOrphans == 1
\* Sample frames the device delivers in one run of the live UI.
MaxUIFrames == 12
\* Entries of the transcript of a cloud session.
MaxSegments == 3
\* Runs of the stable recorder that fail one after the other.
MaxAttempts == 8
\* Recordings the user makes with the stable recorder.
MaxClips == 6

\* -------------------------------------------------- constructor arguments
\* LiveTranscriber(transcriber, language, sample_rate, chunk_duration,
\* overlap_duration): the sample rate of every instance, and the durations
\* of the instance most properties are checked on.
sample_rate == 10
InstanceChunkDuration == 7
InstanceOverlapDuration == 6

\* int(sample_rate * seconds), with the duration given in tenths of a second.
IntSamples(rate, tenths) == (rate * tenths) \div 10

\* blocksize=int(self.sample_rate * 0.1)
blocksize == IntSamples(sample_rate, 1)

\* ------------------------------------------------------ program constants
\* if self.processing_queue.qsize() < 3
QueueLimit == 3
\* if np.max(np.abs(chunk)) < 0.01
SilenceThreshold == 10
\* deque(maxlen=10)
ProcessingTimesMaxlen == 10

\* ------------------------------------------------------------------ inputs
\* Amplitude of a delivered frame: 9 lies just under the silence threshold,
\* -10 is at the threshold in absolute value.
QuietAmps == {9}
LoudAmps == {-10}
Amps == QuietAmps \cup LoudAmps
\* What the engine returns as result["text"], before strip().
EngineTexts == {<<" ">>, <<"a", " ">>, <<"b">>}
\* Wall-clock duration of an engine call.
Latencies == {1}
\* The durations of the engine calls of a session that follows others: the
\* earlier calls took 1, 2, ... and the calls of this session take 11 or
\* 12, so that every entry of the history is told from every other.
LaterLatencies == {11, 12}

Threads == 1..MaxSessions

VARIABLES
    recorder,              \* the fields of an EnhancedAudioRecorder
    session_state,         \* st.session_state of the live transcription UI
    chunk_duration,        \* self.chunk_duration
    overlap_duration,      \* self.overlap_duration
    is_recording,          \* self.is_recording
    audio_buffer,          \* self.audio_buffer
    processing_queue,      \* self.processing_queue
    transcription_queue,   \* self.transcription_queue
    full_transcript,       \* self.full_transcript
    last_processed_text,   \* self.last_processed_text
    processing_times,      \* self.processing_times
    processing_thread,     \* self.processing_thread (0 is None)
    stream,                \* self.stream: "none", "active" or "closed"
    threads,               \* every worker thread created: its position and locals
    stop_pc,               \* position of the caller inside stop_recording
    frames_delivered,      \* samples delivered to the callback while recording
    loud_frames,           \* how many of these frames carried sound
    windows,               \* the last two windows the callback extracted in this session
    calls_due,             \* dequeued windows with a peak at or over the threshold,
                           \* less the engine calls made
    backlog_at_stop,       \* while stop_recording waits for the worker: whether
                           \* windows were queued when it cleared the flag
    results,               \* the list `results` of a get_transcription call
                           \* that has taken a result and is still in its loop
    returned,              \* what the last call of start_recording or
                           \* stop_recording gave its caller
    result                 \* `result` in process_audio_chunks: what the last
                           \* call of transcriber.transcribe returned, in a
                           \* list that is empty before the first call
VARIABLES
    session_state_cloud,   \* st.session_state as the cloud UI uses it, with
                           \* the values of its two widgets
    stable_recorder,       \* st.session_state as stable_audio_recorder uses
                           \* it, the button its last run showed and what
                           \* that run returned
    app                    \* main() of app.py: what the sidebar has selected,
                           \* what torch finds on the machine, model_info
                           \* and transcriber (lists, empty while unset or
                           \* None) and whether load_model reported an error

\* What the methods of a LiveTranscriber read and write after __init__.
transcriber_vars ==
    <<is_recording, audio_buffer, processing_queue, transcription_queue,
      full_transcript, last_processed_text, processing_times,
      processing_thread, stream, threads, stop_pc, frames_delivered,
      loud_frames, windows, calls_due, backlog_at_stop, results>>

\* What the callers of the objects keep for themselves.
app_vars == <<returned, result, session_state_cloud, stable_recorder, app>>

\* What they leave alone: the durations the object was built with, the
\* recorder, the session state of the UI and what the callers keep.
other_vars ==
    <<chunk_duration, overlap_duration, recorder, session_state, app_vars>>

vars == <<transcriber_vars, other_vars>>

\* A step A of the LiveTranscriber.
OnTranscriber(A) == A /\ UNCHANGED other_vars

\* self.chunk_size, self.overlap_size
chunk_size == IntSamples(sample_rate, chunk_duration)
overlap_size == IntSamples(sample_rate, overlap_duration)
\* deque(maxlen=self.chunk_size + self.overlap_size)
buffer_maxlen == chunk_size + overlap_size

\* Lengths of the blocks handed to audio_callback when it is called
\* directly: the stream's block, one sample more than a window, and one
\* sample more than the buffer holds.
FrameLengths == {blocksize, chunk_size + 1, buffer_maxlen + 1}

\* ----------------------------------------------------------------- helpers
Abs(x) == IF x < 0 THEN -x ELSE x

Max2(x, y) == IF x >= y THEN x ELSE y

\* np.max(np.abs(chunk)) of a non-empty chunk
RECURSIVE Peak(_)
Peak(chunk) ==
    IF Len(chunk) = 1 THEN Abs(chunk[1].a)
    ELSE Max2(Abs(chunk[1].a), Peak(Tail(chunk)))

\* np.max(chunk), the absolute value forgotten
RECURSIVE SignedMax(_)
SignedMax(chunk) ==
    IF Len(chunk) = 1 THEN chunk[1].a
    ELSE Max2(chunk[1].a, SignedMax(Tail(chunk)))

\* IsSilent with the gate applied to the signed samples
IsSilentSigned(chunk) == SignedMax(chunk) < SilenceThreshold

\* np.max(np.abs(chunk)) < 0.01
IsSilent(chunk) == Peak(chunk) < SilenceThreshold

\* list(...)[:n]
Take(s, n) == SubSeq(s, 1, IF n < Len(s) THEN n ELSE Len(s))

\* the sequence without its first n elements (n calls of popleft, each
\* guarded by "if self.audio_buffer")
Drop(s, n) ==
    SubSeq(s, (IF n < 0 THEN 0 ELSE IF n < Len(s) THEN n ELSE Len(s)) + 1, Len(s))

\* the last n elements
LastN(s, n) == Drop(s, Len(s) - n)

\* extend on a deque that has no maxlen
UnboundedExtend(dq, items, maxlen) == dq \o items

\* deque.extend / deque.append on a deque with maxlen: the oldest go
BoundedExtend(dq, items, maxlen) ==
    LET all == dq \o items
    IN  IF Len(all) > maxlen THEN Drop(all, Len(all) - maxlen) ELSE all

IsSpace(c) == c = " "

\* str.strip()
RECURSIVE LStrip(_)
LStrip(s) == IF s # <<>> /\ IsSpace(Head(s)) THEN LStrip(Tail(s)) ELSE s

RECURSIVE RStrip(_)
RStrip(s) ==
    IF s # <<>> /\ IsSpace(s[Len(s)]) THEN RStrip(SubSeq(s, 1, Len(s) - 1)) ELSE s

Strip(s) == RStrip(LStrip(s))

\* "".join(texts)
RECURSIVE JoinNoSpace(_)
JoinNoSpace(texts) ==
    IF texts = <<>> THEN <<>> ELSE texts[1] \o JoinNoSpace(Tail(texts))

\* " ".join(texts)
RECURSIVE JoinSpace(_)
JoinSpace(texts) ==
    IF texts = <<>> THEN <<>>
    ELSE IF Len(texts) = 1 THEN texts[1]
    ELSE texts[1] \o <<" ">> \o JoinSpace(Tail(texts))

\* indata: a block of `frames` samples, numbered on from those delivered
Frame(amp, frames) ==
    [i \in 1..frames |-> [t |-> frames_delivered + i, a |-> amp]]

NoChunk == <<>>

Thread(pc, chunk, text, ptime) ==
    [pc |-> pc, chunk |-> chunk, text |-> text, ptime |-> ptime]

Alive(w) == threads[w].pc \notin {"unborn", "done"}

\* The controlling thread is inside no call of this object.
CallerIdle == stop_pc = "idle" /\ results = <<>>

\* ------------------------------------------------- the other objects
\* EnhancedAudioRecorder.connection_timeout, 2.0 s, in half seconds.
connection_timeout == 4

RecorderThreads == 1..MaxRecorderSessions

RecorderThread(pc, audio_chunk) == [pc |-> pc, audio_chunk |-> audio_chunk]

\* What a call returned: True, False, None, or the chunks of a recording.
Returned(value, chunks) == [value |-> value, chunks |-> chunks]

\* EnhancedAudioRecorder(): the fields after __init__, with the defaults
\* sample_rate=16000, channels=1, chunk_duration=0.1.  recording_thread 0
\* is None; stream "none" is the attribute not yet existing;
\* last_data_time is kept as whether it is set and the time since it, in
\* half seconds.  The other fields are the positions of the threads in
\* the methods: rthreads the processing threads, call the controlling
\* thread (with the chunk it holds and what its last call returned),
\* orphans the open streams that self.stream no longer refers to, and
\* callbacks the number of calls of audio_callback so far.
EnhancedAudioRecorder ==
    [sample_rate |-> 16000, channels |-> 1, chunk_size |-> 1600,
     audio_queue |-> <<>>, is_recording |-> FALSE, recording_thread |-> 0,
     audio_buffer |-> <<>>, error_count |-> 0,
     last_data_time |-> FALSE, since_data |-> 0,
     stream |-> "none", stream_params |-> <<>>, orphans |-> 0,
     rthreads |-> [w \in RecorderThreads |-> RecorderThread("unborn", 0)],
     call |-> "idle", audio_chunk |-> 0,
     returned |-> Returned("nothing", <<>>),
     callbacks |-> 0]

\* st.session_state as create_live_transcription_ui initialises it.
SessionState == [is_live_recording |-> FALSE, live_transcript |-> <<>>]

\* st.session_state as create_live_transcription_ui_cloud initialises it
\* (live_recordings is never used); the recorder widget holds no audio and
\* the box "Auto-continue recording" is not ticked.
CloudSessionState ==
    [live_transcript_cloud |-> <<>>, is_recording_cloud |-> FALSE,
     recording_counter |-> 0, audio_bytes |-> FALSE, auto_mode |-> FALSE]

\* st.session_state as stable_audio_recorder initialises it (last_audio 0 is
\* None); no button shown, nothing returned.
StableSessionState ==
    [recording_attempts |-> 0, last_audio |-> 0, recording_status |-> "ready",
     shown |-> "none", returned |-> 0]

\* main() before the model is looked up and loaded, for the selections
\* given.
Sidebar(model_option, device_option, compute_type, torch) ==
    [model_option |-> model_option, device_option |-> device_option,
     compute_type |-> compute_type, torch |-> torch,
     model_info |-> <<>>, transcriber |-> <<>>, load_error |-> FALSE]

\* The recorder and the session states as constructed, no call made.
Pages ==
    /\ recorder = EnhancedAudioRecorder
    /\ session_state = SessionState
    /\ session_state_cloud = CloudSessionState
    /\ stable_recorder = StableSessionState
    /\ returned = "nothing"
    /\ result = <<>>

\* The same, the two boxes of the sidebar at the selections they start with
\* (index 0), on a machine where torch finds no accelerator.
Elsewhere ==
    Pages /\ app = Sidebar("PhoWhisper-small", "auto", "default", "cpu")

\* ------------------------------------------------------------------- Init
\* __init__: the object as constructed, before any call.
Constructed ==
    /\ is_recording = FALSE
    /\ audio_buffer = <<>>
    /\ processing_queue = <<>>
    /\ transcription_queue = <<>>
    /\ full_transcript = <<>>
    /\ last_processed_text = <<>>
    /\ processing_times = <<>>
    /\ processing_thread = 0
    /\ stream = "none"
    /\ threads = [w \in Threads |-> Thread("unborn", NoChunk, <<>>, 0)]
    /\ stop_pc = "idle"
    /\ frames_delivered = 0
    /\ loud_frames = 0
    /\ windows = <<>>
    /\ calls_due = 0
    /\ backlog_at_stop = FALSE
    /\ results = <<>>

Init ==
    /\ chunk_duration = InstanceChunkDuration
    /\ overlap_duration = InstanceOverlapDuration
    /\ Elsewhere
    /\ Constructed

\* -------------------------------------------------- the capture callback
\* Enqueue with the other policy for a full queue: the oldest window goes
EnqueueDropOldest(queue, chunk) ==
    IF Len(queue) < QueueLimit THEN Append(queue, chunk)
    ELSE Append(Tail(queue), chunk)

\* if self.processing_queue.qsize() < 3: self.processing_queue.put(chunk.copy())
Enqueue(queue, chunk) ==
    IF Len(queue) < QueueLimit THEN Append(queue, chunk) ELSE queue

\* for _ in range(self.chunk_size - self.overlap_size): popleft()
Retain(buf) == Drop(buf, Max2(0, chunk_size - overlap_size))

\* LiveTranscriber.audio_callback on a block of `frames` samples.  The
\* status flag is only printed.
audio_callback(amp, frames, status) ==
    /\ IF is_recording
       THEN LET buf == BoundedExtend(audio_buffer, Frame(amp, frames), buffer_maxlen)
                chunk == Take(buf, chunk_size)
            IN  /\ frames_delivered' = frames_delivered + frames
                /\ loud_frames' = loud_frames + (IF amp \in LoudAmps THEN 1 ELSE 0)
                /\ IF Len(buf) >= chunk_size
                   THEN /\ processing_queue' = Enqueue(processing_queue, chunk)
                        /\ audio_buffer' = Retain(buf)
                        /\ windows' = LastN(windows \o <<chunk>>, 2)
                   ELSE /\ audio_buffer' = buf
                        /\ UNCHANGED <<processing_queue, windows>>
                /\ UNCHANGED <<is_recording, transcription_queue,
                               full_transcript, last_processed_text,
                               processing_times, processing_thread, stream,
                               threads, stop_pc, calls_due, backlog_at_stop,
                               results>>
       ELSE UNCHANGED transcriber_vars

\* One call by the stream, which delivers blocks of blocksize samples.
AudioCallback(amp, status) ==
    /\ stream = "active"
    /\ is_recording => frames_delivered + blocksize <= MaxFrames
    /\ (is_recording /\ amp \in LoudAmps) => loud_frames < MaxLoud
    /\ audio_callback(amp, blocksize, status)

\* One direct call with a block of any length.
AudioCallbackOfLength(amp, frames, status) ==
    /\ is_recording => frames_delivered + frames <= MaxDirectFrames
    /\ (is_recording /\ amp \in LoudAmps) => loud_frames < MaxLoud
    /\ audio_callback(amp, frames, status)

\* ------------------------------------------------------- the worker thread
\* One pass of "while self.is_recording or not self.processing_queue.empty()"
\* with its "chunk = self.processing_queue.get(timeout=0.1)": a window is
\* there and is taken, then the silence gate decides whether it goes on.
WorkerGet(w) ==
    /\ threads[w].pc = "loop"
    /\ processing_queue # <<>>
    /\ LET chunk == Head(processing_queue)
       IN  /\ processing_queue' = Tail(processing_queue)
           /\ calls_due' =
                  calls_due + (IF Peak(chunk) >= SilenceThreshold THEN 1 ELSE 0)
           /\ threads' = [threads EXCEPT ![w] =
                  IF IsSilent(chunk)
                  THEN Thread("loop", NoChunk, <<>>, 0)
                  ELSE Thread("transcribe", chunk, <<>>, 0)]
    /\ UNCHANGED <<is_recording, audio_buffer, transcription_queue,
                   full_transcript, last_processed_text, processing_times,
                   processing_thread, stream, stop_pc, frames_delivered,
                   loud_frames, windows, backlog_at_stop,
                   results>>

\* No window arrives within the timeout while recording: queue.Empty is
\* raised and caught, the loop goes round.
WorkerTimeout(w) ==
    /\ threads[w].pc = "loop"
    /\ processing_queue = <<>>
    /\ is_recording
    /\ UNCHANGED transcriber_vars

\* WorkerExit for a loop that reads "while self.is_recording"
WorkerExitOnFlag(w) ==
    /\ threads[w].pc = "loop"
    /\ ~is_recording
    /\ threads' = [threads EXCEPT ![w].pc = "done"]
    /\ UNCHANGED <<is_recording, audio_buffer, processing_queue,
                   transcription_queue, full_transcript, last_processed_text,
                   processing_times, processing_thread, stream, stop_pc,
                   frames_delivered, loud_frames, windows, calls_due,
                   backlog_at_stop,
                   results>>

\* WorkerExit for a loop whose get() has no timeout: blocked on the empty
\* queue, the worker never looks at the flag again
WorkerExitBlockedInGet(w) ==
    /\ threads[w].pc = "loop"
    /\ FALSE
    /\ UNCHANGED transcriber_vars

\* The loop condition is false: the thread ends.
WorkerExit(w) ==
    /\ threads[w].pc = "loop"
    /\ ~(is_recording \/ processing_queue # <<>>)
    /\ threads' = [threads EXCEPT ![w].pc = "done"]
    /\ UNCHANGED <<is_recording, audio_buffer, processing_queue,
                   transcription_queue, full_transcript, last_processed_text,
                   processing_times, processing_thread, stream, stop_pc,
                   frames_delivered, loud_frames, windows,
                   calls_due, backlog_at_stop,
                   results>>

\* if text and text != self.last_processed_text
ShouldEmit(text) == text # <<>> /\ text # last_processed_text

\* The engine call returns raw after process_time: the time is recorded, the
\* text stripped and compared with the last emitted text.
WorkerTranscribe(w, raw, process_time) ==
    /\ threads[w].pc = "transcribe"
    /\ calls_due' = calls_due - 1
    /\ processing_times' =
           BoundedExtend(processing_times, <<process_time>>, ProcessingTimesMaxlen)
    /\ LET text == Strip(raw)
       IN  threads' = [threads EXCEPT ![w] =
               IF ShouldEmit(text)
               THEN Thread("emit", threads[w].chunk, text, process_time)
               ELSE Thread("loop", NoChunk, <<>>, 0)]
    /\ UNCHANGED <<is_recording, audio_buffer, processing_queue,
                   transcription_queue, full_transcript, last_processed_text,
                   processing_thread, stream, stop_pc, frames_delivered,
                   loud_frames, windows, backlog_at_stop,
                   results>>

\* The engine call (or writing the temporary file) raises: control is in
\* the handler "except Exception as e", the window is given up.
WorkerRaise(w) ==
    /\ threads[w].pc = "transcribe"
    /\ calls_due' = calls_due - 1
    /\ threads' = [threads EXCEPT ![w] = Thread("except", NoChunk, <<>>, 0)]
    /\ UNCHANGED <<is_recording, audio_buffer, processing_queue,
                   transcription_queue, full_transcript, last_processed_text,
                   processing_times, processing_thread, stream, stop_pc,
                   frames_delivered, loud_frames, windows, backlog_at_stop,
                   results>>

\* WorkerExcept for a handler placed around the loop instead of inside it
WorkerExceptEnds(w) ==
    /\ threads[w].pc = "except"
    /\ threads' = [threads EXCEPT ![w].pc = "done"]
    /\ UNCHANGED <<is_recording, audio_buffer, processing_queue,
                   transcription_queue, full_transcript, last_processed_text,
                   processing_times, processing_thread, stream, stop_pc,
                   frames_delivered, loud_frames, windows, calls_due,
                   backlog_at_stop,
                   results>>

\* The handler has printed the error: the loop goes round.
WorkerExcept(w) ==
    /\ threads[w].pc = "except"
    /\ threads' = [threads EXCEPT ![w].pc = "loop"]
    /\ UNCHANGED <<is_recording, audio_buffer, processing_queue,
                   transcription_queue, full_transcript, last_processed_text,
                   processing_times, processing_thread, stream, stop_pc,
                   frames_delivered, loud_frames, windows, calls_due,
                   backlog_at_stop,
                   results>>

\* self.last_processed_text = text; self.transcription_queue.put({...})
\* (the field peak is not in the code: it is the peak of the window the
\* text was made from; the timestamp is left out)
WorkerEmit(w) ==
    /\ threads[w].pc = "emit"
    /\ last_processed_text' = threads[w].text
    /\ transcription_queue' = Append(transcription_queue,
           [text |-> threads[w].text, processing_time |-> threads[w].ptime,
            is_partial |-> TRUE, peak |-> Peak(threads[w].chunk)])
    /\ threads' = [threads EXCEPT ![w] = Thread("loop", NoChunk, <<>>, 0)]
    /\ UNCHANGED <<is_recording, audio_buffer, processing_queue,
                   full_transcript, processing_times, processing_thread,
                   stream, stop_pc, frames_delivered, loud_frames, windows, calls_due, backlog_at_stop,
                   results>>

\* --------------------------------------------------------- the lifecycle
\* The calls below are made by the one controlling thread, so none begins
\* while stop_recording is still running.

\* StartRecording without the test "if not self.is_recording"
StartRecordingAnyway(stream_ok) ==
    /\ CallerIdle
    /\ processing_thread < MaxSessions
    /\ is_recording' = TRUE
    /\ audio_buffer' = <<>>
    /\ full_transcript' = <<>>
    /\ last_processed_text' = <<>>
    /\ processing_thread' = processing_thread + 1
    /\ threads' = [threads EXCEPT ![processing_thread + 1] =
                       Thread("loop", NoChunk, <<>>, 0)]
    /\ stream' = IF stream_ok THEN "active" ELSE stream
    /\ windows' = <<>>
    /\ UNCHANGED <<processing_queue, transcription_queue,
                   processing_times, stop_pc, frames_delivered,
                   loud_frames, calls_due, backlog_at_stop,
                   results>>

\* LiveTranscriber.start_recording.  stream_ok is whether sd.InputStream and
\* stream.start() succeed; when they raise, the lines before them have run.
StartRecording(stream_ok) ==
    /\ CallerIdle
    /\ IF ~is_recording
       THEN /\ processing_thread < MaxSessions
            /\ is_recording' = TRUE
            /\ audio_buffer' = <<>>
            /\ full_transcript' = <<>>
            /\ last_processed_text' = <<>>
            /\ processing_thread' = processing_thread + 1
            /\ threads' = [threads EXCEPT ![processing_thread + 1] =
                               Thread("loop", NoChunk, <<>>, 0)]
            /\ stream' = IF stream_ok THEN "active" ELSE stream
            /\ windows' = <<>>
            /\ UNCHANGED <<processing_queue, transcription_queue,
                           processing_times, stop_pc, frames_delivered,
                           loud_frames, calls_due, backlog_at_stop,
                   results>>
       ELSE UNCHANGED transcriber_vars

\* stop_recording up to the join: the flag is cleared and the stream, when
\* the attribute exists, stopped and closed; or False is returned.
StopRecording ==
    /\ CallerIdle
    /\ IF is_recording
       THEN /\ is_recording' = FALSE
            /\ stream' = IF stream = "none" THEN "none" ELSE "closed"
            /\ backlog_at_stop' = (processing_queue # <<>>)
            /\ stop_pc' = "join"
            /\ UNCHANGED <<audio_buffer, processing_queue,
                           transcription_queue, full_transcript,
                           last_processed_text, processing_times,
                           processing_thread, threads, frames_delivered,
                           loud_frames, windows, calls_due,
                   results>>
       ELSE UNCHANGED transcriber_vars

\* JoinReturns for join() without a timeout
JoinReturnsWhenEnded == threads[processing_thread].pc = "done"

\* self.processing_thread.join(timeout=5) returns: the thread has ended, or
\* the five seconds have passed with the thread inside an engine call, the
\* one step of the loop that takes unbounded time.
JoinReturns ==
    \/ threads[processing_thread].pc = "done"
    \/ threads[processing_thread].pc = "transcribe"

StopJoin ==
    /\ stop_pc = "join"
    /\ JoinReturns
    /\ stop_pc' = "flush"
    /\ backlog_at_stop' = FALSE
    /\ UNCHANGED <<is_recording, audio_buffer, processing_queue,
                   transcription_queue, full_transcript, last_processed_text,
                   processing_times, processing_thread, stream, threads,
                   frames_delivered, loud_frames, windows,
                   calls_due,
                   results>>

\* len(self.audio_buffer) > self.sample_rate * 0.5
ShouldFlush(buffer) == Len(buffer) * 10 > sample_rate * 5

\* The remainder is put on the queue, then time.sleep(1); or True is returned.
StopFlush ==
    /\ stop_pc = "flush"
    /\ IF ShouldFlush(audio_buffer)
       THEN /\ processing_queue' = Append(processing_queue, audio_buffer)
            /\ stop_pc' = "sleep"
       ELSE /\ stop_pc' = "idle"
            /\ UNCHANGED processing_queue
    /\ UNCHANGED <<is_recording, audio_buffer, transcription_queue,
                   full_transcript, last_processed_text, processing_times,
                   processing_thread, stream, threads, frames_delivered,
                   loud_frames, windows, calls_due, backlog_at_stop,
                   results>>

\* time.sleep(1) is over: return True
StopReturn ==
    /\ stop_pc = "sleep"
    /\ stop_pc' = "idle"
    /\ UNCHANGED <<is_recording, audio_buffer, processing_queue,
                   transcription_queue, full_transcript, last_processed_text,
                   processing_times, processing_thread, stream, threads,
                   frames_delivered, loud_frames, windows,
                   calls_due, backlog_at_stop,
                   results>>

\* the texts of the results rs, the empty ones left out (if result["text"])
RECURSIVE AcceptedTexts(_)
AcceptedTexts(rs) ==
    IF rs = <<>> THEN <<>>
    ELSE (IF Head(rs).text # <<>> THEN <<Head(rs).text>> ELSE <<>>)
         \o AcceptedTexts(Tail(rs))

\* TakeResult with "self.full_transcript = [result["text"]]"
TakeResultOverwriting ==
    /\ transcription_queue # <<>>
    /\ transcription_queue' = Tail(transcription_queue)
    /\ results' = Append(results, Head(transcription_queue))
    /\ full_transcript' = AcceptedTexts(<<Head(transcription_queue)>>)
    /\ UNCHANGED <<is_recording, audio_buffer, processing_queue,
                   last_processed_text, processing_times, processing_thread,
                   stream, threads, stop_pc, frames_delivered, loud_frames,
                   windows, calls_due, backlog_at_stop>>

\* TakeResult reading the oldest result without removing it
TakeResultPeeking ==
    /\ transcription_queue # <<>>
    /\ results' = Append(results, Head(transcription_queue))
    /\ full_transcript' =
           full_transcript \o AcceptedTexts(<<Head(transcription_queue)>>)
    /\ UNCHANGED <<is_recording, audio_buffer, processing_queue,
                   transcription_queue, last_processed_text, processing_times,
                   processing_thread, stream, threads, stop_pc,
                   frames_delivered, loud_frames, windows, calls_due,
                   backlog_at_stop>>

\* One pass of the loop of get_transcription: get_nowait() takes the oldest
\* result, which is appended to results and its text to full_transcript.
TakeResult ==
    /\ transcription_queue # <<>>
    /\ transcription_queue' = Tail(transcription_queue)
    /\ results' = Append(results, Head(transcription_queue))
    /\ full_transcript' =
           full_transcript \o AcceptedTexts(<<Head(transcription_queue)>>)
    /\ UNCHANGED <<is_recording, audio_buffer, processing_queue,
                   last_processed_text, processing_times, processing_thread,
                   stream, threads, stop_pc, frames_delivered, loud_frames,
                   windows, calls_due, backlog_at_stop>>

\* LiveTranscriber.get_transcription is called: with nothing on the result
\* queue it returns [] at once, otherwise it takes the first result.
GetTranscription ==
    /\ CallerIdle
    /\ IF transcription_queue = <<>> THEN UNCHANGED transcriber_vars ELSE TakeResult

\* The loop goes round while the worker may be putting results.
GetTranscriptionNext ==
    /\ results # <<>>
    /\ TakeResult

\* "while not self.transcription_queue.empty()" is false: return results
GetTranscriptionReturn ==
    /\ results # <<>>
    /\ transcription_queue = <<>>
    /\ results' = <<>>
    /\ UNCHANGED <<is_recording, audio_buffer, processing_queue,
                   transcription_queue, full_transcript, last_processed_text,
                   processing_times, processing_thread, stream, threads,
                   stop_pc, frames_delivered, loud_frames, windows,
                   calls_due, backlog_at_stop>>

\* LiveTranscriber.get_full_transcript: " ".join(self.full_transcript)
get_full_transcript == JoinSpace(full_transcript)

\* A call of get_full_transcript changes nothing.
GetFullTranscript ==
    /\ CallerIdle
    /\ UNCHANGED transcriber_vars

\* ------------------------------------------------------ the specification
Next ==
    \/ \E amp \in Amps, status \in BOOLEAN :
           OnTranscriber(AudioCallback(amp, status))
    \/ \E w \in Threads : OnTranscriber(WorkerGet(w))
    \/ \E w \in Threads : OnTranscriber(WorkerTimeout(w))
    \/ \E w \in Threads : OnTranscriber(WorkerExit(w))
    \/ \E w \in Threads, raw \in EngineTexts, t \in Latencies :
           OnTranscriber(WorkerTranscribe(w, raw, t))
    \/ \E w \in Threads : OnTranscriber(WorkerRaise(w))
    \/ \E w \in Threads : OnTranscriber(WorkerExcept(w))
    \/ \E w \in Threads : OnTranscriber(WorkerEmit(w))
    \/ \E ok \in BOOLEAN : OnTranscriber(StartRecording(ok))
    \/ OnTranscriber(StopRecording)
    \/ OnTranscriber(StopJoin)
    \/ OnTranscriber(StopFlush)
    \/ OnTranscriber(StopReturn)
    \/ OnTranscriber(GetTranscription)
    \/ OnTranscriber(GetTranscriptionNext)
    \/ OnTranscriber(GetTranscriptionReturn)
    \/ OnTranscriber(GetFullTranscript)

Spec == Init /\ [][Next]_vars

\* The scheduler lets a worker thread take the steps that are its own; the
\* engine call is not among them.
WorkerFair(w) ==
    /\ WF_vars(OnTranscriber(WorkerGet(w)))
    /\ WF_vars(OnTranscriber(WorkerExit(w)))
    /\ WF_vars(OnTranscriber(WorkerExcept(w)))
    /\ WF_vars(OnTranscriber(WorkerEmit(w)))

\* The engine call of a worker comes back, with a text or an exception.
EngineFair(w) ==
    WF_vars(OnTranscriber(
                \/ \E raw \in EngineTexts, t \in Latencies :
                       WorkerTranscribe(w, raw, t)
                \/ WorkerRaise(w)))

\* The caller of stop_recording keeps running: join, put and sleep end.
StopFair ==
    /\ WF_vars(OnTranscriber(StopJoin))
    /\ WF_vars(OnTranscriber(StopFlush))
    /\ WF_vars(OnTranscriber(StopReturn))

\* The steps of Next, the device delivering MaxFairFrames sample frames at
\* most.
NextFair ==
    \/ \E amp \in Amps, status \in BOOLEAN :
           /\ frames_delivered + blocksize <= MaxFairFrames
           /\ OnTranscriber(AudioCallback(amp, status))
    \/ Next /\ UNCHANGED frames_delivered

\* Threads are scheduled, engine calls may last for ever.
SpecStop ==
    /\ Init /\ [][NextFair]_vars
    /\ StopFair
    /\ \A w \in Threads : WorkerFair(w)

\* Threads are scheduled and every engine call returns.
SpecWorker ==
    /\ Init /\ [][NextFair]_vars
    /\ \A w \in Threads : WorkerFair(w) /\ EngineFair(w)

\* A recording whose callback is driven directly with blocks of any length,
\* the worker running beside it.
NextFrames ==
    \/ \E ok \in BOOLEAN : OnTranscriber(StartRecording(ok))
    \/ \E amp \in Amps, frames \in FrameLengths, status \in BOOLEAN :
           OnTranscriber(AudioCallbackOfLength(amp, frames, status))
    \/ \E w \in Threads : OnTranscriber(WorkerGet(w))
    \/ \E w \in Threads : OnTranscriber(WorkerTimeout(w))
    \/ \E w \in Threads, raw \in EngineTexts, t \in Latencies :
           OnTranscriber(WorkerTranscribe(w, raw, t))
    \/ \E w \in Threads : OnTranscriber(WorkerRaise(w))
    \/ \E w \in Threads : OnTranscriber(WorkerExcept(w))
    \/ \E w \in Threads : OnTranscriber(WorkerEmit(w))

SpecFrames == Init /\ [][NextFrames]_vars

\* The object at the start of a later session, the sessions before it having
\* made n engine calls: start_recording has run (it does not touch
\* processing_times), the queues were empty, the worker is in its loop.
InitTimes ==
    /\ chunk_duration = InstanceChunkDuration
    /\ overlap_duration = InstanceOverlapDuration
    /\ Elsewhere
    /\ is_recording = TRUE
    /\ audio_buffer = <<>>
    /\ processing_queue = <<>>
    /\ transcription_queue = <<>>
    /\ full_transcript = <<>>
    /\ last_processed_text = <<>>
    /\ \E n \in 0..ProcessingTimesMaxlen :
           processing_times = [i \in 1..n |-> i]
    /\ processing_thread = 1
    /\ stream = "active"
    /\ threads = [w \in Threads |->
                     IF w = 1 THEN Thread("loop", NoChunk, <<>>, 0)
                     ELSE Thread("unborn", NoChunk, <<>>, 0)]
    /\ stop_pc = "idle"
    /\ frames_delivered = 0
    /\ loud_frames = 0
    /\ windows = <<>>
    /\ calls_due = 0
    /\ backlog_at_stop = FALSE
    /\ results = <<>>

\* The callback and the worker of that session.
NextTimes ==
    \/ \E amp \in Amps, status \in BOOLEAN :
           OnTranscriber(AudioCallback(amp, status))
    \/ \E w \in Threads : OnTranscriber(WorkerGet(w))
    \/ \E w \in Threads : OnTranscriber(WorkerTimeout(w))
    \/ \E w \in Threads, raw \in EngineTexts, t \in LaterLatencies :
           OnTranscriber(WorkerTranscribe(w, raw, t))
    \/ \E w \in Threads : OnTranscriber(WorkerRaise(w))
    \/ \E w \in Threads : OnTranscriber(WorkerExcept(w))
    \/ \E w \in Threads : OnTranscriber(WorkerEmit(w))

SpecTimes == InitTimes /\ [][NextTimes]_vars

\* The sliders of create_live_transcription_ui, in tenths of a second:
\* chunk duration 1.0 to 5.0 in steps of 0.5, overlap 0.0 to 1.0 in steps
\* of 0.1.
UIChunkDurations == {10, 15, 20, 25, 30, 35, 40, 45, 50}
UIOverlapDurations == 0..10

\* The Start button builds LiveTranscriber(chunk_duration=...,
\* overlap_duration=...) with the values of the sliders.
InitConfig ==
    /\ chunk_duration \in UIChunkDurations
    /\ overlap_duration \in UIOverlapDurations
    /\ Elsewhere
    /\ Constructed

\* The session that the button then starts: the stream's frames and the
\* worker.
NextConfig ==
    \/ \E ok \in BOOLEAN : OnTranscriber(StartRecording(ok))
    \/ \E amp \in Amps, status \in BOOLEAN :
           OnTranscriber(AudioCallbackOfLength(amp, blocksize, status))
    \/ \E w \in Threads : OnTranscriber(WorkerGet(w))
    \/ \E w \in Threads : OnTranscriber(WorkerTimeout(w))
    \/ \E w \in Threads, raw \in EngineTexts, t \in Latencies :
           OnTranscriber(WorkerTranscribe(w, raw, t))
    \/ \E w \in Threads : OnTranscriber(WorkerRaise(w))
    \/ \E w \in Threads : OnTranscriber(WorkerExcept(w))
    \/ \E w \in Threads : OnTranscriber(WorkerEmit(w))

SpecConfig == InitConfig /\ [][NextConfig]_vars

\* The defaults of __init__, in tenths of a second: chunk_duration=3.0,
\* overlap_duration=0.5.
DefaultChunkDuration == 30
DefaultOverlapDuration == 5

\* A signal of a tone, silence and the tone again, as the amplitude and the
\* length in tenths of a second (one 100 ms frame each) of its parts.
ScenarioSignal ==
    <<[a |-> 500, tenths |-> 30], [a |-> 0, tenths |-> 40],
      [a |-> 500, tenths |-> 30]>>

RECURSIVE SignalAmp(_, _)
\* The amplitude of frame number n of the signal.
SignalAmp(signal, n) ==
    IF n <= signal[1].tenths THEN signal[1].a
    ELSE SignalAmp(Tail(signal), n - signal[1].tenths)

RECURSIVE SignalFrames(_)
SignalFrames(signal) ==
    IF signal = <<>> THEN 0
    ELSE signal[1].tenths + SignalFrames(Tail(signal))

InitScenario ==
    /\ chunk_duration = DefaultChunkDuration
    /\ overlap_duration = DefaultOverlapDuration
    /\ Elsewhere
    /\ Constructed

\* The signal is fed frame by frame to audio_callback.
ScenarioCallback ==
    /\ is_recording
    /\ frames_delivered < SignalFrames(ScenarioSignal)
    /\ audio_callback(SignalAmp(ScenarioSignal, frames_delivered + 1),
                      blocksize, FALSE)

\* One session: start_recording, the whole signal, stop_recording; the
\* engine returns a text for every window, and the caller takes the results
\* when the recording has been stopped.
NextScenario ==
    \/ /\ processing_thread = 0
       /\ OnTranscriber(StartRecording(TRUE))
    \/ OnTranscriber(ScenarioCallback)
    \/ \E w \in Threads : OnTranscriber(WorkerGet(w))
    \/ \E w \in Threads : OnTranscriber(WorkerTimeout(w))
    \/ \E w \in Threads : OnTranscriber(WorkerExit(w))
    \/ \E w \in Threads, raw \in EngineTexts, t \in Latencies :
           OnTranscriber(WorkerTranscribe(w, raw, t))
    \/ \E w \in Threads : OnTranscriber(WorkerEmit(w))
    \/ /\ frames_delivered = SignalFrames(ScenarioSignal)
       /\ is_recording
       /\ OnTranscriber(StopRecording)
    \/ OnTranscriber(StopJoin)
    \/ OnTranscriber(StopFlush)
    \/ OnTranscriber(StopReturn)
    \/ /\ ~is_recording
       /\ processing_thread # 0
       /\ OnTranscriber(GetTranscription)
    \/ OnTranscriber(GetTranscriptionNext)
    \/ OnTranscriber(GetTranscriptionReturn)

SpecScenario == InitScenario /\ [][NextScenario]_vars

\* ------------------------------------------- the caller of the lifecycle
\* A step A of a caller that keeps what the call gave it.
OnCaller(A) ==
    A /\ UNCHANGED <<chunk_duration, overlap_duration, recorder,
                     session_state, result, session_state_cloud,
                     stable_recorder, app>>

\* started = start_recording(): True at the end of the branch taken when not
\* recording, an exception when the stream cannot be opened, False otherwise.
CallStart(stream_ok) ==
    /\ StartRecording(stream_ok)
    /\ returned' = IF is_recording THEN "False"
                   ELSE IF stream_ok THEN "True" ELSE "raised"

\* stopped = stop_recording(), up to the join: False at once when not
\* recording.
CallStop ==
    /\ StopRecording
    /\ returned' = IF is_recording THEN returned ELSE "False"

\* stop_recording comes to its "return True".
CallStopReturn ==
    /\ StopReturn
    /\ returned' = "True"

\* The steps of NextFair, the lifecycle calls made by a caller that keeps
\* their values.
NextLifecycle ==
    \/ \E ok \in BOOLEAN : OnCaller(CallStart(ok))
    \/ OnCaller(CallStop)
    \/ OnCaller(CallStopReturn)
    \/ \E amp \in Amps, status \in BOOLEAN :
           /\ frames_delivered + blocksize <= MaxFairFrames
           /\ OnTranscriber(AudioCallback(amp, status))
    \/ \E w \in Threads : OnTranscriber(WorkerGet(w))
    \/ \E w \in Threads : OnTranscriber(WorkerTimeout(w))
    \/ \E w \in Threads : OnTranscriber(WorkerExit(w))
    \/ \E w \in Threads, raw \in EngineTexts, t \in Latencies :
           OnTranscriber(WorkerTranscribe(w, raw, t))
    \/ \E w \in Threads : OnTranscriber(WorkerRaise(w))
    \/ \E w \in Threads : OnTranscriber(WorkerExcept(w))
    \/ \E w \in Threads : OnTranscriber(WorkerEmit(w))
    \/ OnTranscriber(StopJoin)
    \/ OnTranscriber(StopFlush)
    \/ OnTranscriber(GetTranscription)
    \/ OnTranscriber(GetTranscriptionNext)
    \/ OnTranscriber(GetTranscriptionReturn)
    \/ OnTranscriber(GetFullTranscript)

SpecLifecycle == Init /\ [][NextLifecycle]_vars

\* -------------------------------------------- FasterWhisperTranscriber
\* What self.model.transcribe and the iteration over its segments do: an
\* exception, or the texts of the segments.
Raised == [raised |-> TRUE, segments |-> <<>>]
ModelOutcomes ==
    {Raised} \cup
    [raised : {FALSE},
     segments : {<<>>, << <<" ", "a">> >>, << <<" ", "b">> >>,
                 << <<" ", "a">>, <<" ", "b">> >>}]

\* full_text += segment.text + " ", for every segment
RECURSIVE FullTextOf(_)
FullTextOf(segments) ==
    IF segments = <<>> THEN <<>>
    ELSE Head(segments) \o <<" ">> \o FullTextOf(Tail(segments))

\* transcribe without "except Exception"
transcribeUnguarded(outcome) ==
    IF outcome.raised
    THEN [raises |-> TRUE, text |-> <<>>, error |-> FALSE]
    ELSE [raises |-> FALSE, text |-> Strip(FullTextOf(outcome.segments)),
          error |-> FALSE]

\* FasterWhisperTranscriber.transcribe, the model doing what outcome says.
\* A call ends with an exception (raises) or with a dictionary that has a
\* text and may have the key "error".
transcribe(outcome) ==
    IF outcome.raised
    THEN [raises |-> FALSE, text |-> <<>>, error |-> TRUE]
    ELSE [raises |-> FALSE, text |-> Strip(FullTextOf(outcome.segments)),
          error |-> FALSE]

\* A step A of a worker that calls transcribe.
OnEngine(A) ==
    A /\ UNCHANGED <<chunk_duration, overlap_duration, recorder,
                     session_state, returned, session_state_cloud,
                     stable_recorder, app>>

\* The engine call of worker w is FasterWhisperTranscriber.transcribe: what
\* it returns is the worker's result, what it raises goes to the handler of
\* the worker.
WorkerCallsTranscribe(w, outcome, process_time) ==
    LET call == transcribe(outcome)
    IN  IF call.raises
        THEN WorkerRaise(w) /\ UNCHANGED result
        ELSE /\ WorkerTranscribe(w, call.text, process_time)
             /\ result' = <<[text |-> call.text, error |-> call.error]>>

\* The steps of NextFair, the engine being a FasterWhisperTranscriber; the
\* worker may still fail at writing the temporary file.
NextEngine ==
    \/ \E amp \in Amps, status \in BOOLEAN :
           /\ frames_delivered + blocksize <= MaxFairFrames
           /\ OnTranscriber(AudioCallback(amp, status))
    \/ \E w \in Threads : OnTranscriber(WorkerGet(w))
    \/ \E w \in Threads : OnTranscriber(WorkerTimeout(w))
    \/ \E w \in Threads : OnTranscriber(WorkerExit(w))
    \/ \E w \in Threads, outcome \in ModelOutcomes, t \in Latencies :
           OnEngine(WorkerCallsTranscribe(w, outcome, t))
    \/ \E w \in Threads : OnTranscriber(WorkerRaise(w))
    \/ \E w \in Threads : OnTranscriber(WorkerExcept(w))
    \/ \E w \in Threads : OnTranscriber(WorkerEmit(w))
    \/ \E ok \in BOOLEAN : OnTranscriber(StartRecording(ok))
    \/ OnTranscriber(StopRecording)
    \/ OnTranscriber(StopJoin)
    \/ OnTranscriber(StopFlush)
    \/ OnTranscriber(StopReturn)
    \/ OnTranscriber(GetTranscription)
    \/ OnTranscriber(GetTranscriptionNext)
    \/ OnTranscriber(GetTranscriptionReturn)
    \/ OnTranscriber(GetFullTranscript)

SpecEngine == Init /\ [][NextEngine]_vars

\* ------------------------------------------- the cloud live transcription
\* A step A of the script of create_live_transcription_ui_cloud: what the
\* user does and the script runs that follow, to the end of the last one.
OnCloud(A) ==
    A /\ UNCHANGED <<transcriber_vars, chunk_duration, overlap_duration,
                     recorder, session_state, returned, result,
                     stable_recorder, app>>

\* CloudSegment for a script that counts every recorded segment
CloudSegmentCountsAll(s, outcome) ==
    IF ~(s.is_recording_cloud /\ s.audio_bytes) THEN s
    ELSE LET call == transcribe(outcome)
         IN  IF call.raises THEN s
             ELSE IF call.text = <<>>
             THEN [s EXCEPT !.recording_counter = @ + 1,
                            !.audio_bytes = FALSE]
             ELSE [s EXCEPT
                     !.live_transcript_cloud =
                         Append(@, [segment |-> s.recording_counter + 1,
                                    text |-> Strip(call.text)]),
                     !.recording_counter = @ + 1,
                     !.audio_bytes = FALSE]

\* The recording interface of one script run, from "if audio_bytes:" on, the
\* session state being s when the run comes to it.  After the counter has
\* moved the recorder widget has a new key and holds nothing.
CloudSegment(s, outcome) ==
    IF ~(s.is_recording_cloud /\ s.audio_bytes) THEN s
    ELSE LET call == transcribe(outcome)
         IN  IF call.raises \/ call.text = <<>> THEN s
             ELSE [s EXCEPT
                     !.live_transcript_cloud =
                         Append(@, [segment |-> s.recording_counter + 1,
                                    text |-> Strip(call.text)]),
                     !.recording_counter = @ + 1,
                     !.audio_bytes = FALSE]

\* "Start Session" (disabled while a session is active), then the rerun with
\* a recorder widget that is new.
CloudStartSession ==
    /\ ~session_state_cloud.is_recording_cloud
    /\ session_state_cloud' =
           [session_state_cloud EXCEPT !.is_recording_cloud = TRUE,
                                       !.live_transcript_cloud = <<>>,
                                       !.recording_counter = 0,
                                       !.audio_bytes = FALSE]

\* "End Session" (disabled while no session is active), then the rerun, which
\* shows no recorder.
CloudEndSession ==
    /\ session_state_cloud.is_recording_cloud
    /\ session_state_cloud' =
           [session_state_cloud EXCEPT !.is_recording_cloud = FALSE,
                                       !.audio_bytes = FALSE]

\* "Clear Transcript", then the rerun: the recorder widget keeps its key,
\* and with kept its audio, when the counter was 0 already.
CloudClearTranscript(kept, outcome) ==
    /\ session_state_cloud' =
           CloudSegment(
               [session_state_cloud EXCEPT
                   !.live_transcript_cloud = <<>>,
                   !.recording_counter = 0,
                   !.audio_bytes =
                       /\ kept
                       /\ session_state_cloud.audio_bytes
                       /\ session_state_cloud.recording_counter = 0],
               outcome)

\* The user records a segment with the widget: the script runs with
\* audio_bytes set.  (No segment is recorded once the transcript has
\* MaxSegments entries.)
CloudRecordSegment(outcome) ==
    /\ session_state_cloud.is_recording_cloud
    /\ Len(session_state_cloud.live_transcript_cloud) < MaxSegments
    /\ session_state_cloud' =
           CloudSegment([session_state_cloud EXCEPT !.audio_bytes = TRUE],
                        outcome)

\* "Record Next Segment" or the slider: the script runs again with what the
\* widget holds.
CloudRerun(outcome) ==
    /\ session_state_cloud.is_recording_cloud
    /\ session_state_cloud.audio_bytes
    /\ Len(session_state_cloud.live_transcript_cloud) < MaxSegments
    /\ session_state_cloud' = CloudSegment(session_state_cloud, outcome)

\* The box "Auto-continue recording" is ticked or cleared: the script runs
\* again.
CloudAutoMode(outcome) ==
    /\ Len(session_state_cloud.live_transcript_cloud) < MaxSegments
    /\ session_state_cloud' =
           CloudSegment([session_state_cloud EXCEPT !.auto_mode = ~@],
                        outcome)

NextCloud ==
    \/ OnCloud(CloudStartSession)
    \/ OnCloud(CloudEndSession)
    \/ \E kept \in BOOLEAN, outcome \in ModelOutcomes :
           OnCloud(CloudClearTranscript(kept, outcome))
    \/ \E outcome \in ModelOutcomes : OnCloud(CloudRecordSegment(outcome))
    \/ \E outcome \in ModelOutcomes : OnCloud(CloudRerun(outcome))
    \/ \E outcome \in ModelOutcomes : OnCloud(CloudAutoMode(outcome))

SpecCloud == Init /\ [][NextCloud]_vars

\* ------------------------------------------------- the stable recorder
\* A step A of the script around stable_audio_recorder, which may clear
\* st.session_state for every page.
OnStable(A) ==
    A /\ UNCHANGED <<transcriber_vars, chunk_duration, overlap_duration,
                     recorder, returned, result, app>>

\* What audio_recorder does in a run: it raises, or gives None (audio 0) or
\* the bytes of a recording.
RecorderOutcomes ==
    [raised : {TRUE}, audio : {0}] \cup [raised : {FALSE}, audio : 0..MaxClips]

\* The attempts after which the handler stops offering a retry.
GiveUpAt == 3

\* How a run ends: with the session state s, or with st.rerun() after the
\* state was reset or (cleared) wiped.
Ended(s, rerun, cleared) == [state |-> s, rerun |-> rerun, cleared |-> cleared]

\* stable_audio_recorder in one script run: s is st.session_state after the
\* three initialisations, outcome what audio_recorder does, click the button
\* of the previous run that the user has clicked ("none" when the run has
\* another cause).  A clicked button counts only where the run shows it.
stable_audio_recorder(s, outcome, click) ==
    IF ~outcome.raised
    THEN IF outcome.audio # 0
         THEN Ended([s EXCEPT !.last_audio = outcome.audio,
                              !.recording_status = "success",
                              !.recording_attempts = 0,
                              !.shown = "none",
                              !.returned = outcome.audio], FALSE, FALSE)
         ELSE Ended([s EXCEPT !.shown = "none", !.returned = s.last_audio],
                    FALSE, FALSE)
    ELSE LET attempts == s.recording_attempts + 1
         IN  IF attempts < GiveUpAt
             THEN IF click = "reset"
                  THEN Ended([s EXCEPT !.recording_status = "error",
                                       !.recording_attempts = 0,
                                       !.shown = "none"], TRUE, FALSE)
                  ELSE Ended([s EXCEPT !.recording_status = "error",
                                       !.recording_attempts = attempts,
                                       !.shown = "reset",
                                       !.returned = s.last_audio],
                             FALSE, FALSE)
             ELSE IF click = "refresh"
                  THEN Ended([StableSessionState EXCEPT
                                  !.returned = s.returned], TRUE, TRUE)
                  ELSE Ended([s EXCEPT !.recording_status = "error",
                                       !.recording_attempts = attempts,
                                       !.shown = "refresh",
                                       !.returned = s.last_audio],
                             FALSE, FALSE)

\* A script run caused by click, and the run that st.rerun() starts when the
\* first one ends with it: in that one no button is clicked.  Clearing
\* st.session_state takes the keys of the other pages with it, which their
\* scripts initialise again.
StableRun(click, outcome, again) ==
    /\ stable_recorder.recording_attempts < MaxAttempts
    /\ LET first == stable_audio_recorder(stable_recorder, outcome, click)
       IN  /\ stable_recorder' =
                  IF first.rerun
                  THEN stable_audio_recorder(first.state, again, "none").state
                  ELSE first.state
           /\ session_state' =
                  IF first.cleared THEN SessionState ELSE session_state
           /\ session_state_cloud' =
                  IF first.cleared THEN CloudSessionState
                  ELSE session_state_cloud

\* The user uses the recorder widget or another widget of the page.
StableRecord(outcome) == StableRun("none", outcome, outcome)

\* The user clicks "Reset Recorder", shown by the last run.
StableReset(outcome, again) ==
    /\ stable_recorder.shown = "reset"
    /\ StableRun("reset", outcome, again)

\* The user clicks "Refresh Page", shown by the last run.
StableRefresh(outcome, again) ==
    /\ stable_recorder.shown = "refresh"
    /\ StableRun("refresh", outcome, again)

NextStable ==
    \/ \E outcome \in RecorderOutcomes : OnStable(StableRecord(outcome))
    \/ \E outcome, again \in RecorderOutcomes :
           OnStable(StableReset(outcome, again))
    \/ \E outcome, again \in RecorderOutcomes :
           OnStable(StableRefresh(outcome, again))

SpecStable == Init /\ [][NextStable]_vars

\* ------------------------------------------- model_config and the loader
\* AVAILABLE_MODELS
AVAILABLE_MODELS ==
    ("PhoWhisper-small" :>
        [repo_id |-> "qbsmlabs/PhoWhisper-small",
         description |-> "Small model - Faster inference, lower resource usage",
         size |-> "39M parameters",
         performance |-> "Good accuracy, 5-10x faster than large",
         recommended_for |-> "Real-time transcription, low-resource devices",
         compute_type |->
             [cuda |-> "float16", mps |-> "float32", cpu |-> "int8"]])
    @@
    ("PhoWhisper-large-ct2" :>
        [repo_id |-> "kiendt/PhoWhisper-large-ct2",
         description |-> "Large model - Best accuracy (CTranslate2 optimized)",
         size |-> "1.5B parameters",
         performance |-> "Highest accuracy, slower inference",
         recommended_for |-> "High-quality transcription, batch processing",
         compute_type |->
             [cuda |-> "float16", mps |-> "int8_float32", cpu |-> "int8"]])

\* model_config.get_model_info
get_model_info(model_name) ==
    IF model_name \in DOMAIN AVAILABLE_MODELS
    THEN AVAILABLE_MODELS[model_name]
    ELSE AVAILABLE_MODELS["PhoWhisper-large-ct2"]

\* model_config.get_compute_type; of the devices used here only "mps"
\* contains "mps", and all are in lower case.
get_compute_type(model_name, device) ==
    LET model_info == get_model_info(model_name)
        device_key == IF device = "mps" THEN "mps" ELSE device
    IN  IF device_key \in DOMAIN model_info.compute_type
        THEN model_info.compute_type[device_key]
        ELSE "int8"

\* The choices of the two boxes of the sidebar, the compute types the
\* constructor documents, and what "import torch" finds: CUDA, MPS, neither,
\* or no torch at all.
ModelOptions == {"PhoWhisper-small", "PhoWhisper-medium", "PhoWhisper-large-ct2"}
DeviceOptions == {"auto", "cpu", "cuda", "mps"}
ComputeTypes == {"default", "float16", "int8", "int8_float16", "float32"}
TorchFinds == {"cuda", "mps", "cpu", "missing"}

\* FasterWhisperTranscriber.__init__ before self._load_model(); "unset" is an
\* attribute the branch taken does not assign.
FasterWhisperTranscriber(model_name, device, compute_type, torch) ==
    LET model_info == get_model_info(model_name)
        self_device ==
            IF device = "auto"
            THEN (IF torch = "cuda" THEN "cuda" ELSE "cpu")
            ELSE IF device = "mps" THEN "cpu" ELSE device
        use_mps_tensors ==
            IF device = "auto"
            THEN (IF torch = "cuda" THEN "unset"
                  ELSE IF torch = "mps" THEN "True" ELSE "False")
            ELSE IF device = "mps" THEN "True" ELSE "False"
    IN  [model_name |-> model_name,
         model_repo |-> model_info.repo_id,
         requested_device |-> device,
         device |-> self_device,
         use_mps_tensors |-> use_mps_tensors,
         compute_type |->
             IF compute_type = "default"
             THEN get_compute_type(model_name, self_device)
             ELSE compute_type]

\* A step A of main().
OnApp(A) ==
    A /\ UNCHANGED <<transcriber_vars, chunk_duration, overlap_duration,
                     recorder, session_state, returned, result,
                     session_state_cloud, stable_recorder>>

\* model_info = get_model_info(model_option)
ShowModelDetails ==
    /\ app.model_info = <<>>
    /\ app' = [app EXCEPT !.model_info = <<get_model_info(app.model_option)>>]

\* transcriber = load_model(...): the object, or None when WhisperModel
\* raises in _load_model.
LoadModel(loads) ==
    /\ app.transcriber = <<>>
    /\ ~app.load_error
    /\ app' = IF loads
              THEN [app EXCEPT !.transcriber =
                       <<FasterWhisperTranscriber(
                             app.model_option, app.device_option,
                             app.compute_type, app.torch)>>]
              ELSE [app EXCEPT !.load_error = TRUE]

\* Every selection of the sidebar and every compute type, on every machine.
InitModels ==
    /\ chunk_duration = InstanceChunkDuration
    /\ overlap_duration = InstanceOverlapDuration
    /\ Pages
    /\ Constructed
    /\ \E model_option \in ModelOptions, device_option \in DeviceOptions,
          compute_type \in ComputeTypes, torch \in TorchFinds :
           app = Sidebar(model_option, device_option, compute_type, torch)

NextModels ==
    \/ OnApp(ShowModelDetails)
    \/ \E loads \in BOOLEAN : OnApp(LoadModel(loads))

SpecModels == InitModels /\ [][NextModels]_vars

\* ----------------------------------------------- EnhancedAudioRecorder
\* A step A of the recorder.
OnRecorder(A) ==
    A /\ UNCHANGED <<transcriber_vars, chunk_duration, overlap_duration,
                     session_state, app_vars>>

\* The arguments of sd.InputStream in start_recording.
StreamParams(r) ==
    [samplerate |-> r.sample_rate, channels |-> r.channels,
     blocksize |-> r.chunk_size, dtype |-> "float32"]

\* A reconnect that leaves the block size to the device
ReconnectParamsDeviceBlock(r) ==
    [samplerate |-> r.sample_rate, channels |-> r.channels,
     blocksize |-> 0, dtype |-> "float32"]

\* The arguments of sd.InputStream in _reconnect_stream.
ReconnectParams(r) ==
    [samplerate |-> r.sample_rate, channels |-> r.channels,
     blocksize |-> r.chunk_size, dtype |-> "float32"]

\* self.stream = s, with s open or not: a stream that was open and is no
\* longer referred to stays open.
Rebind(r, state, params) ==
    [r EXCEPT !.stream = state, !.stream_params = params,
              !.orphans = @ + (IF r.stream = "active" THEN 1 ELSE 0)]

\* What creating and starting a stream can do: both succeed, sd.InputStream
\* raises, or stream.start() raises.
OpenOutcomes == {"ok", "create_raises", "start_raises"}

\* audio_callback dropping the chunk that comes with a status flag
RecorderCallbackSkipsFlagged(status) ==
    /\ recorder.stream = "active" \/ recorder.orphans > 0
    /\ recorder.callbacks < MaxCallbacks
    /\ recorder' =
         IF status
         THEN [recorder EXCEPT !.callbacks = @ + 1, !.error_count = @ + 1]
         ELSE [recorder EXCEPT
                 !.callbacks = @ + 1,
                 !.error_count = 0,
                 !.last_data_time = @ \/ recorder.is_recording,
                 !.since_data = IF recorder.is_recording THEN 0 ELSE @,
                 !.audio_queue = IF recorder.is_recording
                                 THEN Append(@, recorder.callbacks + 1) ELSE @]

\* EnhancedAudioRecorder.audio_callback, called by an open stream; the
\* chunk is known by its number among the calls.
RecorderCallback(status) ==
    /\ recorder.stream = "active" \/ recorder.orphans > 0
    /\ recorder.callbacks < MaxCallbacks
    /\ recorder' =
         [recorder EXCEPT
            !.callbacks = @ + 1,
            !.error_count = IF status THEN @ + 1 ELSE 0,
            !.last_data_time = @ \/ recorder.is_recording,
            !.since_data = IF recorder.is_recording THEN 0 ELSE @,
            !.audio_queue = IF recorder.is_recording
                            THEN Append(@, recorder.callbacks + 1) ELSE @]

\* Half a second passes; the time since the last data is followed up to
\* one step past the timeout.
Tick ==
    /\ recorder.since_data <= connection_timeout
    /\ recorder' = [recorder EXCEPT !.since_data = @ + 1]

\* EnhancedAudioRecorder.start_recording up to the creation of the stream:
\* False when recording, else the buffer is replaced and the flag set.
RecorderStart ==
    /\ recorder.call = "idle"
    /\ IF recorder.is_recording
       THEN recorder' = [recorder EXCEPT !.returned = Returned("False", <<>>)]
       ELSE /\ recorder.recording_thread < MaxRecorderSessions
            /\ recorder' = [recorder EXCEPT
                              !.audio_buffer = <<>>,
                              !.is_recording = TRUE,
                              !.error_count = 0,
                              !.last_data_time = TRUE,
                              !.since_data = 0,
                              !.call = "open"]

\* start_recording whose handler leaves the flag set
RecorderStartOpenKeepsFlag(outcome) ==
    /\ recorder.call = "open"
    /\ (outcome # "create_raises" /\ recorder.stream = "active")
           => recorder.orphans < MaxOrphans
    /\ recorder' =
         CASE outcome = "ok" ->
                [Rebind(recorder, "active", StreamParams(recorder)) EXCEPT
                   !.recording_thread = @ + 1,
                   !.rthreads[recorder.recording_thread + 1] =
                       RecorderThread("check", 0),
                   !.call = "idle",
                   !.returned = Returned("True", <<>>)]
           [] outcome = "start_raises" ->
                [Rebind(recorder, "closed", StreamParams(recorder)) EXCEPT
                   !.call = "idle",
                   !.returned = Returned("False", <<>>)]
           [] OTHER ->
                [recorder EXCEPT !.call = "idle",
                                 !.returned = Returned("False", <<>>)]

\* The rest of start_recording: the stream is created and started and the
\* processing thread started, True; or the handler clears the flag, False.
RecorderStartOpen(outcome) ==
    /\ recorder.call = "open"
    /\ (outcome # "create_raises" /\ recorder.stream = "active")
           => recorder.orphans < MaxOrphans
    /\ recorder' =
         CASE outcome = "ok" ->
                [Rebind(recorder, "active", StreamParams(recorder)) EXCEPT
                   !.recording_thread = @ + 1,
                   !.rthreads[recorder.recording_thread + 1] =
                       RecorderThread("check", 0),
                   !.call = "idle",
                   !.returned = Returned("True", <<>>)]
           [] outcome = "start_raises" ->
                [Rebind(recorder, "closed", StreamParams(recorder)) EXCEPT
                   !.is_recording = FALSE,
                   !.call = "idle",
                   !.returned = Returned("False", <<>>)]
           [] OTHER ->
                [recorder EXCEPT !.is_recording = FALSE,
                                 !.call = "idle",
                                 !.returned = Returned("False", <<>>)]

\* "if self.last_data_time and (time.time() - self.last_data_time) >
\* self.connection_timeout"
ConnectionLost(r) == r.last_data_time /\ r.since_data > connection_timeout

\* "connection_healthy = time_since_data < 0.5", in half seconds; True when
\* last_data_time is None.
HealthyWithin == 1

\* EnhancedAudioRecorder.get_recording_status: the field "status" of the
\* dictionary it returns.
get_recording_status(r) ==
    LET connection_healthy ==
            r.last_data_time => r.since_data < HealthyWithin
    IN  IF ~r.is_recording THEN "stopped"
        ELSE IF connection_healthy THEN "recording" ELSE "reconnecting"

\* _process_audio_queue at "while self.is_recording": the thread ends, or
\* goes to reconnect, or to the queue.
ThreadCheck(w) ==
    /\ recorder.rthreads[w].pc = "check"
    /\ recorder' = [recorder EXCEPT !.rthreads[w].pc =
                      IF ~recorder.is_recording THEN "done"
                      ELSE IF ConnectionLost(recorder) THEN "reconnect"
                      ELSE "drain"]

\* _reconnect_stream: self.stream.stop(), self.stream.close(), then the
\* sleep of half a second.
ThreadReconnectClose(w) ==
    /\ recorder.rthreads[w].pc = "reconnect"
    /\ recorder' = [recorder EXCEPT
                      !.stream = IF @ = "none" THEN @ ELSE "closed",
                      !.rthreads[w].pc = "reopen"]

\* _reconnect_stream: the new stream is created and started and
\* last_data_time set, or the handler prints the failure.
ThreadReconnectOpen(w, outcome) ==
    /\ recorder.rthreads[w].pc = "reopen"
    /\ (outcome # "create_raises" /\ recorder.stream = "active")
           => recorder.orphans < MaxOrphans
    /\ recorder' =
         CASE outcome = "ok" ->
                [Rebind(recorder, "active", ReconnectParams(recorder)) EXCEPT
                   !.last_data_time = TRUE,
                   !.since_data = 0,
                   !.rthreads[w].pc = "drain"]
           [] outcome = "start_raises" ->
                [Rebind(recorder, "closed", ReconnectParams(recorder)) EXCEPT
                   !.rthreads[w].pc = "drain"]
           [] OTHER ->
                [recorder EXCEPT !.rthreads[w].pc = "drain"]

\* "while not self.audio_queue.empty(): audio_chunk = self.audio_queue.get"
ThreadGet(w) ==
    /\ recorder.rthreads[w].pc = "drain"
    /\ recorder.audio_queue # <<>>
    /\ recorder' = [recorder EXCEPT
                      !.audio_queue = Tail(@),
                      !.rthreads[w] =
                          RecorderThread("append", Head(recorder.audio_queue))]

\* self.audio_buffer.append(audio_chunk)
ThreadAppend(w) ==
    /\ recorder.rthreads[w].pc = "append"
    /\ recorder' = [recorder EXCEPT
                      !.audio_buffer = Append(@, recorder.rthreads[w].audio_chunk),
                      !.rthreads[w] = RecorderThread("drain", 0)]

\* The queue is empty: time.sleep(0.01) and round the loop.
ThreadSleep(w) ==
    /\ recorder.rthreads[w].pc = "drain"
    /\ recorder.audio_queue = <<>>
    /\ recorder' = [recorder EXCEPT !.rthreads[w].pc = "check"]

\* EnhancedAudioRecorder.stop_recording up to the join: None when not
\* recording, else the flag is cleared.
RecorderStop ==
    /\ recorder.call = "idle"
    /\ recorder' =
         IF ~recorder.is_recording
         THEN [recorder EXCEPT !.returned = Returned("None", <<>>)]
         ELSE [recorder EXCEPT !.is_recording = FALSE, !.call = "join"]

\* self.recording_thread.join(timeout=1.0) returns: the thread has ended,
\* or the second has passed with the thread in _reconnect_stream, which
\* sleeps and opens a device.
RecorderJoinReturns ==
    recorder.rthreads[recorder.recording_thread].pc
        \in {"done", "reconnect", "reopen"}

\* The join returns, and the stream is stopped and closed.
RecorderStopClose ==
    /\ recorder.call = "join"
    /\ RecorderJoinReturns
    /\ recorder' = [recorder EXCEPT
                      !.stream = IF @ = "none" THEN @ ELSE "closed",
                      !.call = "drain"]

\* "while not self.audio_queue.empty(): audio_chunk = get_nowait()"
RecorderStopGet ==
    /\ recorder.call = "drain"
    /\ recorder.audio_queue # <<>>
    /\ recorder' = [recorder EXCEPT
                      !.audio_queue = Tail(@),
                      !.audio_chunk = Head(recorder.audio_queue),
                      !.call = "append"]

\* self.audio_buffer.append(audio_chunk)
RecorderStopAppend ==
    /\ recorder.call = "append"
    /\ recorder' = [recorder EXCEPT
                      !.audio_buffer = Append(@, recorder.audio_chunk),
                      !.audio_chunk = 0,
                      !.call = "drain"]

\* The queue is empty: the chunks of the buffer are returned as one
\* recording, or None when there are none.
RecorderStopReturn ==
    /\ recorder.call = "drain"
    /\ recorder.audio_queue = <<>>
    /\ recorder' = [recorder EXCEPT
                      !.returned = IF recorder.audio_buffer # <<>>
                                   THEN Returned("audio", recorder.audio_buffer)
                                   ELSE Returned("None", <<>>),
                      !.call = "idle"]

NextRecorder ==
    \/ \E status \in BOOLEAN : OnRecorder(RecorderCallback(status))
    \/ OnRecorder(Tick)
    \/ OnRecorder(RecorderStart)
    \/ \E outcome \in OpenOutcomes : OnRecorder(RecorderStartOpen(outcome))
    \/ \E w \in RecorderThreads : OnRecorder(ThreadCheck(w))
    \/ \E w \in RecorderThreads : OnRecorder(ThreadReconnectClose(w))
    \/ \E w \in RecorderThreads, outcome \in OpenOutcomes :
           OnRecorder(ThreadReconnectOpen(w, outcome))
    \/ \E w \in RecorderThreads : OnRecorder(ThreadGet(w))
    \/ \E w \in RecorderThreads : OnRecorder(ThreadAppend(w))
    \/ \E w \in RecorderThreads : OnRecorder(ThreadSleep(w))
    \/ OnRecorder(RecorderStop)
    \/ OnRecorder(RecorderStopClose)
    \/ OnRecorder(RecorderStopGet)
    \/ OnRecorder(RecorderStopAppend)
    \/ OnRecorder(RecorderStopReturn)

SpecRecorder == Init /\ [][NextRecorder]_vars

\* A LiveTranscriber and an EnhancedAudioRecorder that are both started and
\* given frames, with the thread of the recorder taking its chunks.
NextCapture ==
    \/ \E ok \in BOOLEAN : OnTranscriber(StartRecording(ok))
    \/ \E amp \in Amps, status \in BOOLEAN :
           OnTranscriber(AudioCallback(amp, status))
    \/ \E status \in BOOLEAN : OnRecorder(RecorderCallback(status))
    \/ OnRecorder(RecorderStart)
    \/ \E outcome \in OpenOutcomes : OnRecorder(RecorderStartOpen(outcome))
    \/ \E w \in RecorderThreads : OnRecorder(ThreadCheck(w))
    \/ \E w \in RecorderThreads : OnRecorder(ThreadGet(w))
    \/ \E w \in RecorderThreads : OnRecorder(ThreadAppend(w))
    \/ \E w \in RecorderThreads : OnRecorder(ThreadSleep(w))

SpecCapture == Init /\ [][NextCapture]_vars

\* ------------------------------------------------- the live UI
\* create_live_transcription_ui.  One run of the script is one step of the
\* script thread, except where it is inside a call of the transcriber.

\* The values the two sliders are set to, in tenths of a second: chunk
\* duration 1.0 s (the minimum), overlap 0.9 s.
SliderChunkDuration == 10
SliderOverlapDuration == 9

\* A step A of the script, which may write st.session_state.
OnUI(A) ==
    A /\ UNCHANGED <<chunk_duration, overlap_duration, recorder, app_vars>>

\* An entry of st.session_state.live_transcript: a result of
\* get_transcription, or the final transcript.
Item(text, is_final) == [text |-> text, is_final |-> is_final]

RECURSIVE Items(_)
\* "for result in new_results: live_transcript.append(result)"
Items(new_results) ==
    IF new_results = <<>> THEN <<>>
    ELSE <<Item(new_results[1].text, FALSE)>> \o Items(Tail(new_results))

RECURSIVE FullText(_)
\* "for item in live_transcript: if text: full_text += text + ' '"
FullText(items) ==
    IF items = <<>> THEN <<>>
    ELSE (IF items[1].text # <<>> THEN items[1].text \o <<" ">> ELSE <<>>)
             \o FullText(Tail(items))

\* The text of "Final Transcript:" and of the download: full_text.strip()
FinalTranscript(items) == Strip(FullText(items))

\* The Start button: a LiveTranscriber is built with the values of the
\* sliders and started; when start_recording returns True the session state
\* is set, when it raises the script run ends there.
UIStart(stream_ok) ==
    /\ ~session_state.is_live_recording
    /\ processing_thread = 0
    /\ StartRecording(stream_ok)
    /\ session_state' =
           IF stream_ok
           THEN [is_live_recording |-> TRUE, live_transcript |-> <<>>]
           ELSE session_state

\* A frame of the stream during the session.
UIFrame(amp, status) ==
    /\ stream = "active"
    /\ is_recording => frames_delivered + blocksize <= MaxUIFrames
    /\ (is_recording /\ amp \in LoudAmps) => loud_frames < MaxLoud
    /\ audio_callback(amp, blocksize, status)

\* The update loop while recording: get_transcription() is called; with
\* nothing queued it returns [] and the script sleeps and reruns.
UIPoll ==
    /\ session_state.is_live_recording
    /\ GetTranscription
    /\ UNCHANGED session_state

\* get_transcription returns and its results are appended.
UIPollReturn ==
    /\ session_state.is_live_recording
    /\ GetTranscriptionReturn
    /\ session_state' =
           [session_state EXCEPT !.live_transcript = @ \o Items(results)]

\* The Stop button: stop_recording() is called ...
UIStop ==
    /\ session_state.is_live_recording
    /\ StopRecording
    /\ UNCHANGED session_state

\* ... and when it has returned the flag is cleared and
\* get_full_transcript(), if not empty, appended as the final entry.
UIStopReturn ==
    /\ StopReturn
    /\ LET final_transcript == get_full_transcript
       IN  session_state' =
               [is_live_recording |-> FALSE,
                live_transcript |->
                    IF final_transcript # <<>>
                    THEN Append(session_state.live_transcript,
                                Item(final_transcript, TRUE))
                    ELSE session_state.live_transcript]

InitUI ==
    /\ chunk_duration = SliderChunkDuration
    /\ overlap_duration = SliderOverlapDuration
    /\ Elsewhere
    /\ Constructed

NextUI ==
    \/ \E ok \in BOOLEAN : OnUI(UIStart(ok))
    \/ \E amp \in Amps, status \in BOOLEAN : OnTranscriber(UIFrame(amp, status))
    \/ \E w \in Threads : OnTranscriber(WorkerGet(w))
    \/ \E w \in Threads : OnTranscriber(WorkerTimeout(w))
    \/ \E w \in Threads : OnTranscriber(WorkerExit(w))
    \/ \E w \in Threads, raw \in EngineTexts, t \in Latencies :
           OnTranscriber(WorkerTranscribe(w, raw, t))
    \/ \E w \in Threads : OnTranscriber(WorkerRaise(w))
    \/ \E w \in Threads : OnTranscriber(WorkerExcept(w))
    \/ \E w \in Threads : OnTranscriber(WorkerEmit(w))
    \/ OnUI(UIPoll)
    \/ OnTranscriber(GetTranscriptionNext)
    \/ OnUI(UIPollReturn)
    \/ OnUI(UIStop)
    \/ OnTranscriber(StopJoin)
    \/ OnTranscriber(StopFlush)
    \/ OnUI(UIStopReturn)

SpecUI == InitUI /\ [][NextUI]_vars

\* ------------------------------------------------------------ properties
Range(s) == {s[i] : i \in 1..Len(s)}

\* The callback has extracted a window in this step (windows is emptied by
\* start_recording and otherwise only grows by the extracted window).
Extracted == windows' # windows /\ windows' # <<>>

\* The worker threads inside an engine call.
InEngine == {w \in Threads : threads[w].pc = "transcribe"}

\* C1: in every reachable state the processing queue holds at most 3
\* windows.
C1_QueueAtMostThree == Len(processing_queue) <= QueueLimit

\* C2: a callback that extracts a window while the queue holds 3 windows
\* leaves the queue as it is (the extracted window is the one given up, no
\* queued window is evicted or moved) and does not touch any worker.
C2_FullQueueDropsNewest ==
    [][(Extracted /\ Len(processing_queue) = QueueLimit)
          => /\ processing_queue' = processing_queue
             /\ threads' = threads
             /\ \A i \in 1..Len(processing_queue') :
                    processing_queue'[i] # windows'[Len(windows')]]_vars

\* A window was extracted with three windows queued and was given up: the
\* last extracted window is newer than the newest of the three queued ones.
C2_Witness ==
    /\ is_recording
    /\ Len(processing_queue) = QueueLimit
    /\ windows # <<>>
    /\ windows[Len(windows)][1].t > processing_queue[QueueLimit][1].t

\* C3: every window the callback extracts has exactly chunk_size samples,
\* and two windows extracted one after the other in a session share exactly
\* overlap_size samples: the last overlap_size samples of the first are the
\* first overlap_size samples of the second.
C3_WindowsOverlap ==
    /\ \A i \in 1..Len(windows) : Len(windows[i]) = chunk_size
    /\ Len(windows) = 2 =>
           /\ LastN(windows[1], overlap_size) = Take(windows[2], overlap_size)
           /\ Cardinality(Range(windows[1]) \cap Range(windows[2])) = overlap_size

\* C4: a dequeued window whose peak is below the threshold causes no engine
\* call and no result: every window in an engine call or being emitted, and
\* the window of every queued result, has a peak at or over the threshold,
\* and the dequeued windows at or over the threshold that have not had their
\* engine call yet are exactly the ones whose call is in flight.
C4_SilenceGate ==
    /\ calls_due = Cardinality(InEngine)
    /\ \A w \in Threads :
           threads[w].pc \in {"transcribe", "emit"} =>
               Peak(threads[w].chunk) >= SilenceThreshold
    /\ \A i \in 1..Len(transcription_queue) :
           transcription_queue[i].peak >= SilenceThreshold

\* The first window of the run was silent and the second is in its engine
\* call: the silent one was dequeued before it and led to no call.
C4_Witness ==
    /\ Len(windows) = 2
    /\ windows[1][1].t = 1
    /\ Peak(windows[1]) < SilenceThreshold
    /\ calls_due = 1
    /\ \E w \in Threads :
           threads[w].pc = "transcribe" /\ threads[w].chunk = windows[2]

\* C5: no result is emitted with an empty text, and none with the text of
\* the result emitted before it in the session (last_processed_text is that
\* text: it is assigned at each emission and emptied by start_recording).
C5_NoRepeatedText ==
    [][Len(transcription_queue') = Len(transcription_queue) + 1
          => LET r == transcription_queue'[Len(transcription_queue')]
             IN  r.text # <<>> /\ r.text # last_processed_text]_vars

\* C6: when processing a window raises, the worker gives up that window only
\* and goes back to the head of its loop: the raise and its handler leave
\* both queues, the transcript, the last emitted text, the recording flag
\* and every other worker as they were, and the handler does not end the
\* thread.
C6_FailureKeepsWorker ==
    [][\A w \in Threads :
          (\/ threads[w].pc = "transcribe" /\ threads'[w].pc = "except"
           \/ threads[w].pc = "except" /\ threads'[w] # threads[w])
          => /\ threads'[w].pc \in {"except", "loop"}
             /\ threads[w].pc = "except" => threads'[w].pc = "loop"
             /\ threads'[w].chunk = NoChunk
             /\ processing_queue' = processing_queue
             /\ transcription_queue' = transcription_queue
             /\ full_transcript' = full_transcript
             /\ last_processed_text' = last_processed_text
             /\ is_recording' = is_recording
             /\ \A v \in Threads \ {w} : threads'[v] = threads[v]]_vars

\* The engine has failed on a window of the first session while an earlier
\* window has given a result and two later windows wait on the queue.
C6_Witness ==
    /\ is_recording
    /\ processing_thread = 1
    /\ threads[1].pc = "except"
    /\ Len(transcription_queue) + Len(full_transcript) >= 1
    /\ Len(processing_queue) >= 2

\* C7: a worker ends only when the flag is cleared and the queue is empty,
\* holding no window; so while stop_recording waits for a worker that has
\* ended, no window is left on the queue.
C7_DrainBeforeExit ==
    /\ [](stop_pc = "join" /\ threads[processing_thread].pc = "done"
             => processing_queue = <<>>)
    /\ [][\A w \in Threads :
             (threads[w].pc # "done" /\ threads'[w].pc = "done")
             => /\ processing_queue = <<>>
                /\ ~is_recording
                /\ threads[w].chunk = NoChunk]_vars

\* stop_recording cleared the flag with windows queued and is waiting; the
\* worker has ended and the queue is empty.
C7_Witness ==
    /\ stop_pc = "join"
    /\ backlog_at_stop
    /\ threads[processing_thread].pc = "done"
    /\ processing_queue = <<>>

\* C8: when stop_recording has put the remainder on the queue, the worker
\* has not yet ended (so it will dequeue the final window).
C8_FlushedBeforeWorkerEnds ==
    stop_pc = "sleep" => threads[processing_thread].pc # "done"

\* C9: stop_recording puts the remainder on the queue if and only if the
\* buffer holds at least 0.5 s of audio (len >= 0.5 * sample_rate).
C9_FlushIffHalfSecond ==
    [][(stop_pc = "flush" /\ stop_pc' # "flush")
          => ((Len(audio_buffer) * 10 >= sample_rate * 5)
                 <=> processing_queue' = Append(processing_queue, audio_buffer))]_vars

\* stop_recording has returned and start_recording has not been called since.
Stopped == ~is_recording /\ stop_pc = "idle" /\ processing_thread # 0

\* C10: after stop_recording has returned, and until the next
\* start_recording, no step changes what get_full_transcript returns.
C10_TranscriptStableAfterStop ==
    [][(Stopped /\ Stopped') => get_full_transcript' = get_full_transcript]_vars

\* A call of start_recording has passed its test "if not self.is_recording"
\* in this step (only then is a thread created).
StartStep == processing_thread' # processing_thread

\* stop_recording returns True in this step.
StopReturns == stop_pc # "idle" /\ stop_pc' = "idle"

IsPrefix(s, t) == Len(s) <= Len(t) /\ SubSeq(t, 1, Len(s)) = s

\* C11: when start_recording has succeeded (returns True with the stream
\* started), the buffer, the transcript and the last emitted text are empty
\* and neither queue holds anything left from an earlier session.
C11_CleanStart ==
    [][(StartStep /\ stream' = "active")
          => /\ audio_buffer' = <<>>
             /\ full_transcript' = <<>>
             /\ last_processed_text' = <<>>
             /\ processing_queue' = <<>>
             /\ transcription_queue' = <<>>]_vars

\* C12: when creating or starting the stream fails inside start_recording,
\* the object is idle afterwards: is_recording is false and no worker
\* thread is running.
C12_FailedStartStaysIdle ==
    [][(StartStep /\ stream' # "active")
          => /\ ~is_recording'
             /\ \A w \in Threads : threads'[w].pc \in {"unborn", "done"}]_vars

\* C13: when stop_recording returns True, the worker thread of the session
\* has ended and the stream is not running.
C13_StoppedMeansJoined ==
    [][StopReturns
          => /\ threads'[processing_thread].pc = "done"
             /\ stream' # "active"]_vars

\* C16: a worker starts an engine call (passes from the head of its loop to
\* the call) only while is_recording is true.
C16_NoCallAfterStop ==
    [][\A w \in Threads :
          (threads[w].pc = "loop" /\ threads'[w].pc = "transcribe")
          => is_recording]_vars

\* C17: every step leaves full_transcript as a prefix of its new value,
\* except a start_recording that passes its test, which empties it.
C17_AppendOnly ==
    [][\/ IsPrefix(full_transcript, full_transcript')
       \/ StartStep /\ full_transcript' = <<>>]_vars

\* get_transcription is in its loop and has appended a second text to the
\* transcript of a running session.
C17_Witness ==
    /\ is_recording
    /\ results # <<>>
    /\ Len(full_transcript) = 2

\* C20: when a worker puts the result of a window, no other worker is about
\* to put the result of a window that was queued earlier (windows are
\* queued in the order of their first sample).
C20_ResultsInWindowOrder ==
    [][\A w \in Threads :
          (threads[w].pc = "emit" /\ threads'[w].pc = "loop")
          => \A v \in Threads \ {w} :
                 threads[v].pc = "emit"
                 => threads[v].chunk[1].t > threads[w].chunk[1].t]_vars

\* Where text i begins in the single-space join of texts, counted from 0.
RECURSIVE Offset(_, _)
Offset(texts, i) ==
    IF i = 1 THEN 0 ELSE Offset(texts, i - 1) + Len(texts[i - 1]) + 1

\* s is the texts in their order with exactly one space between neighbours.
IsSpaceJoin(s, texts) ==
    IF texts = <<>> THEN s = <<>>
    ELSE /\ Len(s) = Offset(texts, Len(texts) + 1) - 1
         /\ \A i \in 1..Len(texts) :
                /\ SubSeq(s, Offset(texts, i) + 1,
                          Offset(texts, i) + Len(texts[i])) = texts[i]
                /\ i < Len(texts) => s[Offset(texts, i + 1)] = " "

\* C18: get_full_transcript() is always the single-space join of the
\* accepted texts, and the accepted texts are the texts of the results taken
\* from the result queue since the last start_recording, oldest first: the
\* transcript changes only by an append of the text of the queue's head
\* (results are queued in the order the worker emitted them) or by a
\* start_recording.
C18_TranscriptIsJoin ==
    /\ [](IsSpaceJoin(get_full_transcript, full_transcript))
    /\ [][full_transcript' # full_transcript
             => \/ StartStep /\ full_transcript' = <<>>
                \/ /\ transcription_queue # <<>>
                   /\ full_transcript' =
                          Append(full_transcript, Head(transcription_queue).text)]_vars

\* Two results have been accepted and the call has returned: the transcript
\* reads "a b".
C18_Witness ==
    /\ results = <<>>
    /\ Len(full_transcript) = 2
    /\ get_full_transcript = <<"a", " ", "b">>

\* C19: a result leaves the result queue only as the head taken by
\* get_transcription, in one step that appends it to the call's results and
\* its text to full_transcript; nothing else shortens or reorders the queue
\* (the worker only appends), the call's results are handed back only once
\* the queue is empty, and a call is never blocked: it can always take its
\* next step, and with nothing on the queue it returns the empty list.
C19_DrainedExactlyOnce ==
    /\ [](/\ CallerIdle => ENABLED OnTranscriber(GetTranscription)
          /\ results # <<>> =>
                 ENABLED OnTranscriber(GetTranscriptionNext \/ GetTranscriptionReturn))
    /\ [][\/ UNCHANGED <<transcription_queue, results>>
          \/ /\ Len(transcription_queue') = Len(transcription_queue) + 1
             /\ IsPrefix(transcription_queue, transcription_queue')
             /\ UNCHANGED <<results, full_transcript>>
          \/ /\ transcription_queue # <<>>
             /\ transcription_queue' = Tail(transcription_queue)
             /\ results' = Append(results, Head(transcription_queue))
             /\ full_transcript' =
                    Append(full_transcript, Head(transcription_queue).text)
          \/ /\ transcription_queue = <<>>
             /\ results' = <<>>
             /\ UNCHANGED <<transcription_queue, full_transcript>>]_vars

\* get_transcription is in its loop with a result taken and another waiting,
\* while a worker is about to put a third.
C19_Witness ==
    /\ results # <<>>
    /\ transcription_queue # <<>>
    /\ \E w \in Threads : threads[w].pc = "emit"

\* C14: a stop_recording that has cleared the flag and waits for the worker
\* returns, whether or not the engine call in flight ever does, and it
\* returns with is_recording false and the stream not running.
C14_StopAlwaysReturns ==
    (stop_pc = "join") ~> (stop_pc = "idle" /\ ~is_recording /\ stream # "active")

\* stop_recording has returned while the session's worker is still inside
\* its engine call.
C14_Witness ==
    /\ CallerIdle
    /\ ~is_recording
    /\ processing_thread # 0
    /\ threads[processing_thread].pc = "transcribe"

\* C15: a worker that is alive while the flag is cleared ends, unless
\* start_recording sets the flag again.
C15_WorkerTerminates ==
    \A w \in Threads :
        (Alive(w) /\ ~is_recording) ~> (~Alive(w) \/ is_recording)

\* The first worker has ended after a stop, having made an engine call and
\* with nothing left on the queue.
C15_Witness ==
    /\ ~is_recording
    /\ threads[1].pc = "done"
    /\ processing_times # <<>>
    /\ processing_queue = <<>>
    /\ stop_pc = "flush"

\* ------------------------------------------------------------------ C27
\* C27: at any time at most one worker thread of a LiveTranscriber is
\* executing process_audio_chunks, also when start_recording follows a
\* stop_recording whose join timed out.
C27_OneWorker == Cardinality({w \in Threads : Alive(w)}) <= 1

\* ------------------------------------------------------------------ C30
\* The capture ordinals of the samples of a sequence.
Ordinals(samples) == {samples[i].t : i \in 1..Len(samples)}

\* C30: while recording with overlap_size < chunk_size the buffer never
\* overflows, whatever the length of a frame: every sample that a callback
\* takes out of the buffer, and every sample of the frame that it does not
\* leave in the buffer, is in a window that was extracted.
C30_NoSampleLost ==
    [][(is_recording /\ overlap_size < chunk_size
            /\ frames_delivered' # frames_delivered)
          => \A t \in Ordinals(audio_buffer)
                        \cup (frames_delivered + 1)..frames_delivered' :
                 t \notin Ordinals(audio_buffer')
                     => \E i \in 1..Len(windows') : t \in Ordinals(windows'[i])]_vars

\* ------------------------------------------------------------------ C21
\* An engine call has returned in this step, after t.
Recorded(t) ==
    \E w \in Threads, raw \in EngineTexts :
        OnTranscriber(WorkerTranscribe(w, raw, t))

\* C21: the history of processing times never holds more than 10 entries;
\* recording a time when it holds 10 drops the oldest entry and keeps the
\* other nine in their order with the new one after them (with fewer than
\* 10 the new one is added at the end), and nothing else changes the
\* history.
C21_TimesKeepLastTen ==
    /\ [](Len(processing_times) <= 10)
    /\ [][/\ \A t \in LaterLatencies :
                Recorded(t) =>
                    processing_times' =
                        IF Len(processing_times) = 10
                        THEN Append(Tail(processing_times), t)
                        ELSE Append(processing_times, t)
          /\ processing_times' # processing_times =>
                 \E t \in LaterLatencies : Recorded(t)]_vars

\* The history held 1..10 and two calls have been recorded since: the two
\* oldest entries are gone and the rest are in their order.
C21_Witness ==
    /\ Len(processing_times) = 10
    /\ \A i \in 1..8 : processing_times[i] = i + 2
    /\ processing_times[9] \in LaterLatencies
    /\ processing_times[10] \in LaterLatencies

\* ------------------------------------------------------------------ C22
\* C22: every configuration that can be constructed, that of every pair of
\* durations the sliders of the live UI offer included, has overlap_size <
\* chunk_size, so that an extraction removes at least one sample: each
\* window starts at a later sample than the window before it.
C22_OverlapBelowChunk ==
    /\ overlap_size < chunk_size
    /\ Len(windows) = 2 => windows[2][1].t > windows[1][1].t

\* ------------------------------------------------------------------ C23
\* The scenario is over: the signal was fed, stop_recording has returned,
\* no worker is running and the caller has taken every result.
ScenarioOver ==
    /\ frames_delivered = SignalFrames(ScenarioSignal)
    /\ ~is_recording
    /\ CallerIdle
    /\ \A w \in Threads : ~Alive(w)
    /\ transcription_queue = <<>>

\* C23: 10 s of audio (3 s tone, 4 s silence, 3 s tone) in 100 ms frames,
\* with 3.0 s chunks and 0.5 s overlap: exactly 2 windows are given to the
\* engine, and the transcript is the engine's outputs for them, at most
\* two entries with no entry repeated.
C23_TwoWindowsToEngine ==
    ScenarioOver =>
        /\ Len(processing_times) = 2
        /\ Len(full_transcript) <= 2
        /\ \A i, j \in 1..Len(full_transcript) :
               i # j => full_transcript[i] # full_transcript[j]

\* ------------------------------------------------------------------ C24
\* C24: a callback that carries a status flag is transient in both classes:
\* the recording flag is unchanged, the frame that came with the flag is
\* buffered (LiveTranscriber: its samples are the newest of the buffer) or
\* enqueued (EnhancedAudioRecorder: it is the newest of the queue) when
\* recording, and the stream stays as it was, so that later frames are
\* captured the same way.
C24_StatusIsTransient ==
    [][/\ \A amp \in Amps :
            OnTranscriber(AudioCallback(amp, TRUE)) =>
                /\ is_recording' = is_recording
                /\ stream' = stream
                /\ is_recording =>
                       LastN(audio_buffer', blocksize) = Frame(amp, blocksize)
       /\ OnRecorder(RecorderCallback(TRUE)) =>
                /\ recorder'.is_recording = recorder.is_recording
                /\ recorder'.stream = recorder.stream
                /\ recorder'.orphans = recorder.orphans
                /\ recorder'.error_count = recorder.error_count + 1
                /\ recorder.is_recording =>
                       recorder'.audio_queue =
                           Append(recorder.audio_queue, recorder'.callbacks)]_vars

\* Both are recording with frames captured; the recorder has had two
\* flagged callbacks in a row and its queue holds the chunks of both.
C24_Witness ==
    /\ is_recording
    /\ stream = "active"
    /\ audio_buffer # <<>>
    /\ recorder.is_recording
    /\ recorder.error_count = 2
    /\ recorder.audio_queue = <<1, 2>>

\* ------------------------------------------------------------------ C25
\* A step of _reconnect_stream by thread w.
ReconnectStep(w) ==
    \/ OnRecorder(ThreadReconnectClose(w))
    \/ \E outcome \in OpenOutcomes : OnRecorder(ThreadReconnectOpen(w, outcome))

\* C25: when the processing thread finds the recorder recording with no
\* data for longer than connection_timeout it goes to reconnect; there it
\* closes the stream and opens one with the parameters the closed one had;
\* and every step of a reconnect, whether it succeeds or fails, leaves
\* is_recording, audio_buffer and audio_queue as they were.
C25_ReconnectKeepsAudio ==
    [][\A w \in RecorderThreads :
          /\ (/\ OnRecorder(ThreadCheck(w))
              /\ recorder.is_recording
              /\ recorder.last_data_time
              /\ recorder.since_data > connection_timeout)
                 => recorder'.rthreads[w].pc = "reconnect"
          /\ OnRecorder(ThreadReconnectClose(w)) => recorder'.stream = "closed"
          /\ OnRecorder(ThreadReconnectOpen(w, "ok")) =>
                 /\ recorder'.stream = "active"
                 /\ recorder'.stream_params = recorder.stream_params
          /\ ReconnectStep(w) =>
                 /\ recorder'.is_recording = recorder.is_recording
                 /\ recorder'.audio_buffer = recorder.audio_buffer
                 /\ recorder'.audio_queue = recorder.audio_queue]_vars

\* A reconnect has failed: the recorder is still recording, the stream is
\* closed with no stop under way, and the chunk in the buffer and the chunk
\* in the queue are still there.
C25_Witness ==
    /\ recorder.is_recording
    /\ recorder.call = "idle"
    /\ recorder.stream = "closed"
    /\ recorder.rthreads[1].pc = "drain"
    /\ recorder.rthreads[2].pc = "unborn"
    /\ recorder.audio_buffer = <<1>>
    /\ recorder.audio_queue = <<2>>

\* ------------------------------------------------------------------ C26
\* C26: when sd.InputStream or stream.start() raises in
\* EnhancedAudioRecorder.start_recording, the call returns False,
\* is_recording is false afterwards and no processing thread was started.
C26_FailedStartIsClean ==
    [][\A outcome \in OpenOutcomes \ {"ok"} :
          OnRecorder(RecorderStartOpen(outcome)) =>
              /\ recorder'.returned = Returned("False", <<>>)
              /\ recorder'.call = "idle"
              /\ ~recorder'.is_recording
              /\ recorder'.recording_thread = recorder.recording_thread
              /\ recorder'.rthreads = recorder.rthreads]_vars

\* The first start_recording has failed in stream.start(): False, not
\* recording, no thread, the stream that was created is not open.
C26_Witness ==
    /\ recorder.returned = Returned("False", <<>>)
    /\ ~recorder.is_recording
    /\ recorder.call = "idle"
    /\ recorder.recording_thread = 0
    /\ recorder.stream = "closed"

\* ------------------------------------------------------------------ C28
\* The text needle occurs in the text hay.
Contains(hay, needle) ==
    \E i \in 1..(Len(hay) - Len(needle) + 1) :
        SubSeq(hay, i, i + Len(needle) - 1) = needle

\* The handler of the Stop button ends in this step: stop_recording has
\* returned and the session state is written.
StopHandled == OnUI(UIStopReturn)

\* C28: after Stop, the final transcript that is displayed holds the text
\* of every result the worker emitted before stop_recording returned, the
\* results emitted since the last poll (those still on transcription_queue)
\* included.
C28_FinalHoldsEveryResult ==
    [][StopHandled =>
          \A i \in 1..Len(transcription_queue) :
              Contains(FinalTranscript(session_state'.live_transcript),
                       transcription_queue[i].text)]_vars

\* ------------------------------------------------------------------ C29
\* C29: the final transcript shown after Stop holds each result text once:
\* when every result was taken by a poll and no worker is left to emit
\* more, it is the texts of the session joined by single spaces.
C29_FinalIsJoinOfResults ==
    [][(/\ StopHandled
        /\ transcription_queue = <<>>
        /\ \A w \in Threads : ~Alive(w))
          => FinalTranscript(session_state'.live_transcript)
                 = JoinSpace(full_transcript)]_vars

\* ------------------------------------------------------------------ C31
\* The chunks of a recording are in capture order, each once.
InCaptureOrder(chunks) ==
    \A i, j \in 1..Len(chunks) : i < j => chunks[i] < chunks[j]

\* C31: stop_recording returns audio built from every chunk the callback
\* enqueued while recording, each once and in capture order, whatever the
\* processing thread does meanwhile: when it returns, no thread holds a
\* chunk that it took off the queue and that is not in the audio returned.
C31_StopReturnsEveryChunk ==
    [][OnRecorder(RecorderStopReturn) =>
          /\ InCaptureOrder(recorder'.returned.chunks)
          /\ \A w \in RecorderThreads :
                 recorder.rthreads[w].pc = "append" =>
                     \E i \in 1..Len(recorder'.returned.chunks) :
                         recorder'.returned.chunks[i]
                             = recorder.rthreads[w].audio_chunk]_vars

\* ------------------------------------------------------------------ C32
\* C32: once stop_recording has returned (and until the next call) no
\* stream that the recorder opened is open, whatever a reconnect in the
\* processing thread does meanwhile or afterwards.
C32_NoStreamAfterStop ==
    (recorder.call = "idle" /\ recorder.returned.value \in {"audio", "None"})
        => (recorder.stream # "active" /\ recorder.orphans = 0)

\* What a lifecycle call in the wrong state must leave alone.
LifecycleFrame ==
    <<processing_thread, threads, stream, audio_buffer, processing_queue,
      transcription_queue, full_transcript, last_processed_text>>

\* C33: start_recording while recording and stop_recording while not
\* recording return False and leave the worker thread, the stream, the audio
\* buffer, both queues, the transcript and the last emitted text unchanged.
C33_WrongStateIsNoOp ==
    [][/\ ((\E ok \in BOOLEAN : OnCaller(CallStart(ok))) /\ is_recording)
           => (returned' = "False" /\ UNCHANGED LifecycleFrame)
       /\ (OnCaller(CallStop) /\ ~is_recording)
           => (returned' = "False" /\ UNCHANGED LifecycleFrame)]_vars

\* start_recording has returned False to a caller while a session was
\* running with its worker alive and audio in the buffer.
C33_Witness ==
    /\ returned = "False"
    /\ is_recording
    /\ threads[processing_thread].pc \in {"loop", "transcribe", "emit"}
    /\ audio_buffer # <<>>
    /\ processing_queue # <<>>

\* C34: get_recording_status says "reconnecting" exactly when the recorder is
\* recording and the time without data is over the timeout at which the
\* thread reconnects; while recording otherwise "recording"; when not
\* recording "stopped".  The status is asked for between the calls of
\* start_recording and stop_recording.
C34_StatusFollowsReconnect ==
    recorder.call = "idle" =>
        get_recording_status(recorder) =
            IF ~recorder.is_recording THEN "stopped"
            ELSE IF ConnectionLost(recorder) THEN "reconnecting"
            ELSE "recording"

\* C36: transcribe does not let an exception of the model out: it returns an
\* empty text with an error field, and the worker that called it emits no
\* result and goes on with its loop.
C36_EngineFailureIsSwallowed ==
    [][\A w \in Threads, t \in Latencies :
          OnEngine(WorkerCallsTranscribe(w, Raised, t)) =>
              /\ ~transcribe(Raised).raises
              /\ result' = <<[text |-> <<>>, error |-> TRUE]>>
              /\ threads'[w].pc = "loop"
              /\ transcription_queue' = transcription_queue
              /\ last_processed_text' = last_processed_text]_vars

\* The model has raised inside a call made by the worker of a running
\* session, which is back at the head of its loop with nothing emitted.
C36_Witness ==
    /\ result = <<[text |-> <<>>, error |-> TRUE]>>
    /\ is_recording
    /\ threads[processing_thread].pc = "loop"
    /\ transcription_queue = <<>>
    /\ processing_times # <<>>

\* C35: in a cloud session recording_counter is the number of entries of
\* live_transcript_cloud and the entries are numbered 1, 2, ... in order; a
\* recorded segment whose transcription is empty or fails adds no entry and
\* leaves the counter alone.
C35_CounterCountsSegments ==
    /\ [](/\ session_state_cloud.recording_counter
                = Len(session_state_cloud.live_transcript_cloud)
          /\ \A i \in 1..Len(session_state_cloud.live_transcript_cloud) :
                 session_state_cloud.live_transcript_cloud[i].segment = i)
    /\ [][\A outcome \in ModelOutcomes :
              (/\ outcome.raised \/ Strip(FullTextOf(outcome.segments)) = <<>>
               /\ OnCloud(CloudRecordSegment(outcome)))
              => /\ session_state_cloud'.live_transcript_cloud
                       = session_state_cloud.live_transcript_cloud
                 /\ session_state_cloud'.recording_counter
                       = session_state_cloud.recording_counter]_vars

\* Two segments are in the transcript of an active session and a third has
\* been recorded whose transcription gave nothing: the widget still holds it.
C35_Witness ==
    /\ session_state_cloud.is_recording_cloud
    /\ session_state_cloud.audio_bytes
    /\ Len(session_state_cloud.live_transcript_cloud) = 2
    /\ session_state_cloud.recording_counter = 2

\* C37: the stable recorder gives up after 3 attempts: recording_attempts
\* stays within 0..3, every successful recording sets it to 0, and a run
\* without new audio returns the last successful recording.
C37_AttemptsWithinThree ==
    /\ [](stable_recorder.recording_attempts \in 0..GiveUpAt)
    /\ [][\A outcome \in RecorderOutcomes :
              OnStable(StableRecord(outcome)) =>
                  IF outcome.audio # 0
                  THEN /\ stable_recorder'.recording_attempts = 0
                       /\ stable_recorder'.returned = outcome.audio
                  ELSE stable_recorder'.returned
                           = stable_recorder.last_audio]_vars

\* C38: for each of the three model names of the dropdown, get_model_info
\* returns the configuration of that same model.
C38_InfoOfSelectedModel ==
    app.model_info # <<>> =>
        /\ app.model_option \in DOMAIN AVAILABLE_MODELS
        /\ app.model_info[1] = AVAILABLE_MODELS[app.model_option]

\* C39: a transcriber built with device "mps" and compute type "default" uses
\* the CPU backend, has MPS flagged, and has the compute type configured for
\* MPS for its model, not the one for the CPU.
C39_MpsComputeType ==
    (/\ app.transcriber # <<>>
     /\ app.device_option = "mps"
     /\ app.compute_type = "default")
        => /\ app.transcriber[1].device = "cpu"
           /\ app.transcriber[1].use_mps_tensors = "True"
           /\ app.transcriber[1].compute_type
                  = get_model_info(app.model_option).compute_type.mps

====
